---------------------------- MODULE Spec2Model ----------------------------
(***************************************************************************)
(* A model of the Auto-Pay webhook core:                                   *)
(*   - PaymentService.process_webhook / _validate_payment_data             *)
(*     (src/app/services/payment_service.py) over the "transactions"       *)
(*     collection with its unique index on tx_id (src/app/models.py);      *)
(*   - verify_hmac_signature (src/app/security.py).                        *)
(*                                                                         *)
(* Text (tx_id, accounts, header values, request bodies) is a sequence of  *)
(* one-character strings, so that strip(), startswith(), slicing and int() *)
(* are computed character by character.  Python's None is the value None   *)
(* below.  Amounts are counted in cents (the schema fixes two decimal      *)
(* places).                                                                *)
(***************************************************************************)
EXTENDS Integers, Sequences, FiniteSets, TLC

\* ------------------------------------------------------------------ bounds

\* Number of process_webhook calls (request handlers) in one behaviour.
MaxCalls == 3

\* The server clock (seconds) when a request is first presented, and the
\* number of seconds it may advance while the request is presented again.
Now0 == 1000
MaxTicks == 2
MaxRequests == 8

\* ------------------------------------------------------- program constants

\* MAX_WEBHOOK_AGE_SECONDS = int(os.getenv("MAX_WEBHOOK_AGE_SECONDS", "300"))
MAX_WEBHOOK_AGE_SECONDS == 300

\* `if request_timestamp > current_time + 5`
FutureSkewSeconds == 5

\* ------------------------------------------------------------------- text

\* Python's None: a one-element tuple that no text (a sequence of
\* one-character strings) equals.
None == <<"<None>">>

Whitespace == {" ", "\t", "\n"}

RECURSIVE LStrip(_)
LStrip(s) ==
    IF s = <<>> THEN <<>>
    ELSE IF Head(s) \in Whitespace THEN LStrip(Tail(s)) ELSE s

RECURSIVE RStrip(_)
RStrip(s) ==
    IF s = <<>> THEN <<>>
    ELSE IF s[Len(s)] \in Whitespace THEN RStrip(SubSeq(s, 1, Len(s) - 1)) ELSE s

\* str.strip()
Strip(s) == RStrip(LStrip(s))

\* Mutant of Truthy: only None is falsy.
TruthyNotNone(s) == s /= None

\* Python truthiness of an Optional[str]: None and "" are falsy.
Truthy(s) == s /= None /\ s /= <<>>

\* `not s or not s.strip()`
EmptyText(s) == ~Truthy(s) \/ ~Truthy(Strip(s))

\* ------------------------------------------------------- results, errors

NoResult == [kind |-> "none"]

PaymentResponse(success, message, status, tx_id) ==
    [kind |-> "PaymentResponse", success |-> success, message |-> message,
     status |-> status, tx_id |-> tx_id]

PaymentValidationError(message, field) ==
    [kind |-> "PaymentValidationError", http_status_code |-> 400,
     message |-> message, field |-> field]

IdempotencyError(tx_id) ==
    [kind |-> "IdempotencyError", http_status_code |-> 409, tx_id |-> tx_id]

\* `if value: context[key] = value`: the context dict as a set of
\* <<key, value>> pairs.
ContextEntry(key, value) == IF Truthy(value) THEN {<<key, value>>} ELSE {}

\* f"{prefix}{value}" if value else None
DetailsFor(prefix, value) == IF Truthy(value) THEN <<prefix>> \o value ELSE None

DatabaseError(message, operation, database_error) ==
    [kind |-> "DatabaseError", http_status_code |-> 500,
     message |-> message, operation |-> operation,
     database_error |-> database_error,
     details |-> DetailsFor("Failed database operation: ", operation),
     context |-> ContextEntry("operation", operation)
                 \cup ContextEntry("database_error", database_error)]

SecurityError(message, security_context) ==
    [kind |-> "SecurityError", http_status_code |-> 401, message |-> message,
     security_context |-> security_context,
     details |-> DetailsFor("Security failure in: ", security_context),
     context |-> ContextEntry("security_context", security_context)]

ConfigurationError(message, config_key, expected_value) ==
    [kind |-> "ConfigurationError", http_status_code |-> 500,
     message |-> message, config_key |-> config_key,
     expected_value |-> expected_value,
     details |-> DetailsFor("Configuration error for: ", config_key),
     context |-> ContextEntry("config_key", config_key)
                 \cup ContextEntry("expected_value", expected_value)]

\* NotFoundError(resource, identifier): the message is f"{resource} not
\* found"; the class has no to_safe_dict of its own.
NotFoundError(resource, identifier) ==
    [kind |-> "NotFoundError", http_status_code |-> 404,
     message |-> resource \o <<" not found">>,
     resource |-> resource, identifier |-> identifier,
     details |-> resource \o <<" with id '">> \o identifier
                 \o <<"' does not exist">>,
     context |-> {<<"resource", resource>>, <<"identifier", identifier>>}]

\* BaseAppError.to_dict(): the full rendering, for internal logging.
ToDict(err) ==
    [error |-> err.kind, message |-> err.message, details |-> err.details,
     context |-> err.context]

\* BaseAppError.to_safe_dict(), which NotFoundError inherits.
BaseToSafeDict(err) == [error |-> err.kind, message |-> err.message]

\* Mutant of ToSafeDict: the full rendering is returned.
ToSafeDictWithInternals(err) == ToDict(err)

\* to_safe_dict() of SecurityError, DatabaseError and ConfigurationError,
\* which override it, and of a class that inherits it.
ToSafeDict(err) ==
    CASE err.kind = "SecurityError" ->
            [error |-> "SecurityError", message |-> err.message]
      [] err.kind = "DatabaseError" ->
            [error |-> "DatabaseError",
             message |-> "An internal error occurred. Please try again later."]
      [] err.kind = "ConfigurationError" ->
            [error |-> "ConfigurationError",
             message |-> "A server configuration error occurred."]
      [] OTHER -> BaseToSafeDict(err)

\* ---------------------------------------------------------------- payloads

T1 == <<"t", "1">>
T2 == <<"t", "2">>
A1 == <<"A", "1">>
A2 == <<"A", "2">>
USD == <<"U", "S", "D">>

Payload(tx_id, amount, currency, sender, receiver, description) ==
    [tx_id |-> tx_id, amount |-> amount, currency |-> currency,
     sender_account |-> sender, receiver_account |-> receiver,
     description |-> description]

\* Payloads that pass the business rules: the same tx_id with two different
\* contents, and a second tx_id.
ValidPayloads ==
    { Payload(T1, 10050, USD, A1, A2, <<"d">>),
      Payload(T1, 99999, USD, A2, A1, None),
      Payload(T2, 10, USD, A1, A2, None) }

\* One payload per business rule of _validate_payment_data (such objects
\* bypass the schema, e.g. WebhookPayload.model_construct).
InvalidPayloads ==
    { Payload(<<>>, 10050, USD, A1, A2, None),
      Payload(<<" ">>, 10050, USD, A1, A2, None),
      Payload(T1, 0, USD, A1, A2, None),
      Payload(T2, -100, USD, A1, A2, None),
      Payload(T1, 10050, <<>>, A1, A2, None),
      Payload(T1, 10050, USD, <<" ", " ">>, A2, None),
      Payload(T2, 10050, USD, A1, <<>>, None),
      Payload(T2, 10050, USD, A1, A1, None) }

Payloads == ValidPayloads \cup InvalidPayloads

TxIds == { p.tx_id : p \in ValidPayloads }

\* Mutant of ValidatePaymentData: the rule on equal accounts is missing.
ValidatePaymentDataWithoutAccountsRule(p) ==
    IF EmptyText(p.tx_id)
    THEN PaymentValidationError("Transaction ID cannot be empty", "tx_id")
    ELSE IF p.amount <= 0
    THEN PaymentValidationError("Transaction amount must be positive", "amount")
    ELSE IF EmptyText(p.currency)
    THEN PaymentValidationError("Currency cannot be empty", "currency")
    ELSE IF EmptyText(p.sender_account)
    THEN PaymentValidationError("Sender account cannot be empty",
                                "sender_account")
    ELSE IF EmptyText(p.receiver_account)
    THEN PaymentValidationError("Receiver account cannot be empty",
                                "receiver_account")
    ELSE NoResult

\* PaymentService._validate_payment_data: the first rule that fails, or
\* NoResult when the payload passes.
ValidatePaymentData(p) ==
    IF EmptyText(p.tx_id)
    THEN PaymentValidationError("Transaction ID cannot be empty", "tx_id")
    ELSE IF p.amount <= 0
    THEN PaymentValidationError("Transaction amount must be positive", "amount")
    ELSE IF EmptyText(p.currency)
    THEN PaymentValidationError("Currency cannot be empty", "currency")
    ELSE IF EmptyText(p.sender_account)
    THEN PaymentValidationError("Sender account cannot be empty", "sender_account")
    ELSE IF EmptyText(p.receiver_account)
    THEN PaymentValidationError("Receiver account cannot be empty", "receiver_account")
    ELSE IF p.sender_account = p.receiver_account
    THEN PaymentValidationError("Sender and receiver accounts must be different",
                                "accounts")
    ELSE NoResult

\* ------------------------------------------------------------------ store

\* float(Decimal): the double nearest to the decimal amount.  A two-decimal
\* amount c/100 is a binary fraction exactly when 25 divides c; the double
\* is otherwise a neighbour that still prints back as the same two-decimal
\* amount (max_digits=15 stays within a double's 15 significant digits).
DecimalToFloat(cents) == [nearest |-> cents, exact |-> (cents % 25 = 0)]

\* Mutant of NewTransaction: status="success" is left out, so the model's
\* default status "pending" is stored.
NewTransactionDefaultStatus(p) ==
    [tx_id |-> p.tx_id, amount |-> DecimalToFloat(p.amount),
     currency |-> p.currency, sender_account |-> p.sender_account,
     receiver_account |-> p.receiver_account, status |-> "pending",
     description |-> p.description]

\* Transaction(tx_id=..., amount=float(payload.amount), ..., status="success")
NewTransaction(p) ==
    [tx_id |-> p.tx_id, amount |-> DecimalToFloat(p.amount),
     currency |-> p.currency, sender_account |-> p.sender_account,
     receiver_account |-> p.receiver_account, status |-> "success",
     description |-> p.description]

\* Mutant of Matching: the filter ignores the tx_id.
MatchingAnyTxId(s, tx_id) == DOMAIN s

\* Positions of the documents with this tx_id in the collection.
Matching(s, tx_id) == { i \in DOMAIN s : s[i].tx_id = tx_id }

\* Python's None where a document is expected (find_one found nothing).
NoDocument == [none |-> TRUE]

\* Mutant of FindOne: a lookup that never finds the document (a wrong filter).
FindOneMisses(s, tx_id) == NoDocument

\* Transaction.find_one({"tx_id": tx_id}): the first matching document or None.
FindOne(s, tx_id) ==
    IF Matching(s, tx_id) = {} THEN NoDocument
    ELSE s[CHOOSE i \in Matching(s, tx_id) : \A j \in Matching(s, tx_id) : i <= j]

\* Mutant of InsertRejected: tx_id indexed without unique=True.
NoUniqueIndex(s, doc) == FALSE

\* The unique index on Transaction.tx_id: does inserting doc violate it?
InsertRejected(s, doc) == Matching(s, doc.tx_id) /= {}

\* new_transaction.insert() when the index accepts the document.
InsertApplied(s, doc) == Append(s, doc)


\* ------------------------------------------------- process_webhook outcomes

\* `if existing_tx:` branch: the duplicate is a success result.
DuplicateResponse(p) ==
    PaymentResponse(TRUE, "Transaction was previously processed", "duplicate",
                    p.tx_id)

\* After `await new_transaction.insert()` returned normally.
ProcessedResponse(p) ==
    PaymentResponse(TRUE, "Transaction stored successfully", "processed",
                    p.tx_id)

\* Mutant of DuplicateKeyOutcome: the DuplicateKeyError is swallowed and the
\* call goes on to its 'processed' return.
DuplicateKeySwallowed(p) == ProcessedResponse(p)

\* Mutant of DuplicateKeyOutcome: the DuplicateKeyError is answered like a
\* found record.
DuplicateKeyAsDuplicate(p) == DuplicateResponse(p)

\* `except DuplicateKeyError: raise IdempotencyError(payload.tx_id)`, which
\* the outer `except (IdempotencyError, PaymentValidationError): raise`
\* lets through.
DuplicateKeyOutcome(p) == IdempotencyError(p.tx_id)

\* What the store driver can raise besides DuplicateKeyError: the text of
\* the exception.
DriverErrors == {<<"Database connection failed">>, <<"Database Timeout">>}

\* Mutant of StoreFailureOutcome: the driver's text is passed on as
\* database_error=str(e).
StoreFailureWithDriverText(e) ==
    DatabaseError("Failed to process transaction", <<"insert_transaction">>, e)

\* `except Exception: raise DatabaseError("Failed to process transaction",
\* operation="insert_transaction")`, for the lookup and for the insert.
\* The exception `e` is logged (exc_info=True) and dropped: database_error
\* is left at its default.
StoreFailureOutcome(e) == DatabaseError("Failed to process transaction",
                                        <<"insert_transaction">>, None)

\* ------------------------------------------------------- int() and str()

Digits == {"0", "1", "2", "3", "4", "5", "6", "7", "8", "9"}

DigitValue(c) ==
    CASE c = "0" -> 0 [] c = "1" -> 1 [] c = "2" -> 2 [] c = "3" -> 3
      [] c = "4" -> 4 [] c = "5" -> 5 [] c = "6" -> 6 [] c = "7" -> 7
      [] c = "8" -> 8 [] c = "9" -> 9

DigitChar(d) ==
    CASE d = 0 -> "0" [] d = 1 -> "1" [] d = 2 -> "2" [] d = 3 -> "3"
      [] d = 4 -> "4" [] d = 5 -> "5" [] d = 6 -> "6" [] d = 7 -> "7"
      [] d = 8 -> "8" [] d = 9 -> "9"

\* str(n) for n >= 0, as the sender writes X-Timestamp.
RECURSIVE IntToStr(_)
IntToStr(n) ==
    IF n < 10 THEN <<DigitChar(n)>>
    ELSE Append(IntToStr(n \div 10), DigitChar(n % 10))

\* The digits part of an int() literal: digits, with single underscores
\* allowed between digits.
IntLiteralDigits(u) ==
    /\ u /= <<>>
    /\ u[1] \in Digits
    /\ u[Len(u)] \in Digits
    /\ \A i \in DOMAIN u : u[i] \in Digits \cup {"_"}
    /\ \A i \in 1..(Len(u) - 1) : ~(u[i] = "_" /\ u[i + 1] = "_")

RECURSIVE DecimalValue(_, _)
DecimalValue(u, acc) ==
    IF u = <<>> THEN acc
    ELSE IF Head(u) = "_" THEN DecimalValue(Tail(u), acc)
    ELSE DecimalValue(Tail(u), 10 * acc + DigitValue(Head(u)))

\* int(x_timestamp): surrounding whitespace is ignored, one sign is allowed;
\* ok = FALSE stands for ValueError.
ParseInt(s) ==
    LET t == Strip(s)
        signed == t /= <<>> /\ Head(t) \in {"+", "-"}
        u == IF signed THEN Tail(t) ELSE t
    IN  IF IntLiteralDigits(u)
        THEN [ok |-> TRUE,
              value |-> IF signed /\ Head(t) = "-"
                        THEN 0 - DecimalValue(u, 0) ELSE DecimalValue(u, 0)]
        ELSE [ok |-> FALSE, value |-> 0]

\* --------------------------------------------------------------- HMAC, hex

\* Two lowercase hex digits of a character's code (its UTF-8 byte).
HexByte(c) ==
    CASE c \in Digits -> <<"3", c>>
      [] c = " " -> <<"2", "0">>
      [] c = "+" -> <<"2", "b">>
      [] c = "." -> <<"2", "e">>
      [] c = "_" -> <<"5", "f">>
      [] c = "a" -> <<"6", "1">>
      [] c = "b" -> <<"6", "2">>
      [] c = "k" -> <<"6", "b">>

RECURSIVE HexEncode(_)
HexEncode(bytes) ==
    IF bytes = <<>> THEN <<>>
    ELSE HexByte(Head(bytes)) \o HexEncode(Tail(bytes))

\* hmac.new(key, msg, hashlib.sha256).hexdigest().  HMAC-SHA256 is taken as
\* an ideal MAC: a deterministic function of key and message without
\* collisions, printed in lowercase hex.  The digest here is the hex of key,
\* a separator byte ff and message, which is such a function on texts; that
\* the key cannot be read off a real digest is not modelled.
HmacSha256Hex(key, msg) == HexEncode(key) \o <<"f", "f">> \o HexEncode(msg)

\* scripts/mock_sender.py generate_hmac: the sender signs
\* f"{timestamp}.{payload}" with its secret.
GenerateHmac(timestamp, payload_str, secret) ==
    HmacSha256Hex(secret, timestamp \o <<".">> \o payload_str)

\* ------------------------------------------------- verify_hmac_signature

Sha256Prefix == <<"s", "h", "a", "2", "5", "6", "=">>

\* str.startswith
StartsWith(s, prefix) ==
    Len(s) >= Len(prefix) /\ SubSeq(s, 1, Len(prefix)) = prefix

\* Mutant of SignedPayload: the parsed timestamp is signed, f"{request_timestamp}.",
\* instead of the header text.
SignedPayloadParsedTimestamp(x_timestamp, body) ==
    IntToStr(ParseInt(x_timestamp).value) \o <<".">> \o body

\* signed_payload = f"{x_timestamp}.".encode() + body
SignedPayload(x_timestamp, body) == x_timestamp \o <<".">> \o body

\* expected_signature = hmac.new(HMAC_SECRET.encode(), signed_payload,
\*                               hashlib.sha256).hexdigest()
ExpectedSignature(secret, x_timestamp, body) ==
    HmacSha256Hex(secret, SignedPayload(x_timestamp, body))

\* Mutant of NormalizeSignature: the prefix is kept.
NormalizeSignatureKeepsPrefix(x_signature) == x_signature

\* if provided_signature.startswith("sha256="): provided_signature[7:]
NormalizeSignature(x_signature) ==
    IF StartsWith(x_signature, Sha256Prefix)
    THEN SubSeq(x_signature, Len(Sha256Prefix) + 1, Len(x_signature))
    ELSE x_signature

\* Mutant of CompareDigest: only the lengths are compared.
CompareDigestLengthOnly(a, b) == Len(a) = Len(b)

\* hmac.compare_digest on two ASCII strings: equality.
CompareDigest(a, b) == a = b

\* Mutant of InFuture: no clock-skew tolerance.
InFutureNoTolerance(request_timestamp, current_time) ==
    request_timestamp > current_time

\* if request_timestamp > current_time + 5
InFuture(request_timestamp, current_time) ==
    request_timestamp > current_time + FutureSkewSeconds

\* Mutant of Expired: no age limit.
NeverExpired(request_timestamp, current_time) == FALSE

\* Mutant of Expired: the age limit is off by one.
ExpiredOffByOne(request_timestamp, current_time) ==
    current_time - request_timestamp >= MAX_WEBHOOK_AGE_SECONDS

\* age = current_time - request_timestamp; if age > MAX_WEBHOOK_AGE_SECONDS
Expired(request_timestamp, current_time) ==
    current_time - request_timestamp > MAX_WEBHOOK_AGE_SECONDS

\* verify_hmac_signature returned True.
Verified == [kind |-> "True"]

\* A header character outside ASCII, U+00E9 (headers are decoded as latin-1).
NonAscii == "\\xe9"

\* str.isascii
IsAscii(s) == \A i \in DOMAIN s : s[i] /= NonAscii

\* What hmac.compare_digest raises when a str argument is not ASCII.
TypeError(message) == [kind |-> "TypeError", message |-> message]

\* One run of verify_hmac_signature: the checks it made, in order, and what
\* it returned or raised.
Run(checks, outcome) == [checks |-> checks, outcome |-> outcome]

\* Mutant of VerifyRun: the HMAC is computed and compared before the headers
\* and the timestamp are looked at.
VerifyRunSignatureFirst(secret, x_signature, x_timestamp, body, current_time) ==
    IF ~Truthy(secret)
    THEN Run(<<"secret">>,
             SecurityError("Webhook verification not configured",
                           <<"webhook_authentication">>))
    ELSE IF ~Truthy(x_signature) \/ ~Truthy(x_timestamp)
            \/ ~CompareDigest(ExpectedSignature(secret, x_timestamp, body),
                              NormalizeSignature(x_signature))
    THEN Run(<<"secret", "body", "hmac", "compare">>,
             SecurityError("Invalid signature", <<"webhook_authentication">>))
    ELSE IF ~ParseInt(x_timestamp).ok
    THEN Run(<<"secret", "body", "hmac", "compare", "timestamp_format">>,
             SecurityError("Invalid timestamp format",
                           <<"webhook_authentication">>))
    ELSE Run(<<"secret", "body", "hmac", "compare", "timestamp_format">>,
             Verified)

\* verify_hmac_signature(request, x_signature, x_timestamp) with
\* HMAC_SECRET = secret and int(time.time()) = current_time: it stops at the
\* first check that fails.  compare_digest raises TypeError, which nothing
\* catches, when the presented signature is not ASCII.
VerifyRun(secret, x_signature, x_timestamp, body, current_time) ==
    IF ~Truthy(secret)
    THEN Run(<<"secret">>,
             SecurityError("Webhook verification not configured",
                           <<"webhook_authentication">>))
    ELSE IF ~Truthy(x_signature)
    THEN Run(<<"secret", "signature_header">>,
             SecurityError("Missing signature header",
                           <<"webhook_authentication">>))
    ELSE IF ~Truthy(x_timestamp)
    THEN Run(<<"secret", "signature_header", "timestamp_header">>,
             SecurityError("Missing timestamp header",
                           <<"webhook_authentication">>))
    ELSE IF ~ParseInt(x_timestamp).ok
    THEN Run(<<"secret", "signature_header", "timestamp_header",
               "timestamp_format">>,
             SecurityError("Invalid timestamp format",
                           <<"webhook_authentication">>))
    ELSE IF InFuture(ParseInt(x_timestamp).value, current_time)
    THEN Run(<<"secret", "signature_header", "timestamp_header",
               "timestamp_format", "future">>,
             SecurityError("Request timestamp is in the future",
                           <<"webhook_authentication">>))
    ELSE IF Expired(ParseInt(x_timestamp).value, current_time)
    THEN Run(<<"secret", "signature_header", "timestamp_header",
               "timestamp_format", "future", "expired">>,
             SecurityError("Request timestamp expired",
                           <<"webhook_authentication">>))
    ELSE IF ~IsAscii(NormalizeSignature(x_signature))
    THEN Run(<<"secret", "signature_header", "timestamp_header",
               "timestamp_format", "future", "expired", "body", "hmac",
               "compare">>,
             TypeError("comparing strings with non-ASCII characters is not supported"))
    ELSE IF ~CompareDigest(ExpectedSignature(secret, x_timestamp, body),
                           NormalizeSignature(x_signature))
    THEN Run(<<"secret", "signature_header", "timestamp_header",
               "timestamp_format", "future", "expired", "body", "hmac",
               "compare">>,
             SecurityError("Invalid signature", <<"webhook_authentication">>))
    ELSE Run(<<"secret", "signature_header", "timestamp_header",
               "timestamp_format", "future", "expired", "body", "hmac",
               "compare">>,
             Verified)

\* What verify_hmac_signature returns or raises.
VerifyHmacSignature(secret, x_signature, x_timestamp, body, current_time) ==
    VerifyRun(secret, x_signature, x_timestamp, body, current_time).outcome

\* ------------------------------------------------------ presented requests

\* Secrets a sender may sign with; SecretConfigs are the values HMAC_SECRET
\* may have: unset, empty, or the deployment's secret.
K1 == <<"k", "1">>
K2 == <<"k", "2">>
SenderSecrets == {K1, K2, <<>>}
SecretConfigs == {None, <<>>, K1}

\* Raw request bodies.
Bodies == { <<"a">>, <<"b">>, <<"a", "b">> }

\* X-Timestamp texts: the clock values at the edges of the replay window and
\* of the future tolerance, other spellings of the current second that int()
\* accepts, and texts int() refuses.
TimestampHeaders ==
    { IntToStr(Now0 + d) :
        d \in { 0 - (MAX_WEBHOOK_AGE_SECONDS + 1), 0 - MAX_WEBHOOK_AGE_SECONDS,
                0 - (MAX_WEBHOOK_AGE_SECONDS - 1), 0,
                FutureSkewSeconds - 1, FutureSkewSeconds,
                FutureSkewSeconds + 1 } }
    \cup { <<"+">> \o IntToStr(Now0), <<"0">> \o IntToStr(Now0),
           <<" ">> \o IntToStr(Now0),
           <<Head(IntToStr(Now0)), "_">> \o Tail(IntToStr(Now0)),
           <<"1", "2", "a">>, <<"1", "_">> }

\* X-Signature values made from a sender's digest: the digest, the digest
\* with one or two "sha256=" prefixes, no header, an empty header, a text
\* that is no digest, a text that is not ASCII.
SignatureHeaders(digest) ==
    { digest, Sha256Prefix \o digest, Sha256Prefix \o Sha256Prefix \o digest,
      None, <<>>, <<"b", "a", "d">>, <<"b", NonAscii>> }

\* ------------------------------------------------- POST /payments/webhook

\* Rate limits: the Limiter's default limit, which SlowAPIMiddleware applies
\* to the undecorated route handler process_payment, and the limit of the
\* decorator on the inner handle_request; both per client and per minute.
DefaultLimitPerMinute == 100
RouteLimitPerMinute == 30

\* What FastAPI raises when the body is not JSON or the WebhookPayload
\* schema refuses it (answered 422), and what slowapi raises (answered 429).
RequestValidationError(errors) ==
    [kind |-> "RequestValidationError", http_status_code |-> 422,
     errors |-> errors]

RateLimitExceeded(limit) ==
    [kind |-> "RateLimitExceeded", http_status_code |-> 429, limit |-> limit]

\* Raw request bodies of the route and the JSON object each one spells (the
\* fields as sent); a body outside this table is not JSON.
NotJson == <<"b", "b">>
JsonBodies ==
    (<<"a">> :> Payload(T1, 10050, USD, A1, A2, <<"d">>))
    @@ (<<"b">> :> Payload(T1, 99999, USD, A2, A1, None))
    @@ (<<"a", "b">> :> Payload(T2, 10050, USD, A1, A1, None))
WebhookBodies == DOMAIN JsonBodies \cup {NotJson}

\* The characters of the pattern ^[a-zA-Z0-9_-]+$ and of ^[A-Z]{3}$.
UpperCase ==
    { "A", "B", "C", "D", "E", "F", "G", "H", "I", "J", "K", "L", "M", "N", "O",
      "P", "Q", "R", "S", "T", "U", "V", "W", "X", "Y", "Z" }
LowerCase ==
    { "a", "b", "c", "d", "e", "f", "g", "h", "i", "j", "k", "l", "m", "n", "o",
      "p", "q", "r", "s", "t", "u", "v", "w", "x", "y", "z" }
IdentifierChars == UpperCase \cup LowerCase \cup Digits \cup {"_", "-"}

\* Field(min_length=1, max_length=n, pattern=r"^[a-zA-Z0-9_-]+$") on a str
IdentifierField(v, max_length) ==
    /\ v /= None
    /\ Len(v) >= 1 /\ Len(v) <= max_length
    /\ \A i \in DOMAIN v : v[i] \in IdentifierChars

\* Field(min_length=3, max_length=3, pattern=r"^[A-Z]{3}$")
CurrencyField(v) ==
    v /= None /\ Len(v) = 3 /\ \A i \in DOMAIN v : v[i] \in UpperCase

\* Field(gt=0, decimal_places=2, max_digits=15) on an amount given in cents
AmountField(cents) == cents > 0 /\ Len(IntToStr(cents)) <= 15

\* validate_description: re.sub(r'[<>"\']', '', v), None if nothing but
\* whitespace is left.
RECURSIVE RemoveHarmful(_)
RemoveHarmful(v) ==
    IF v = <<>> THEN <<>>
    ELSE IF Head(v) \in {"<", ">", "\"", "'"} THEN RemoveHarmful(Tail(v))
    ELSE <<Head(v)>> \o RemoveHarmful(Tail(v))

ValidateDescription(v) ==
    IF v = None THEN None
    ELSE IF Strip(RemoveHarmful(v)) = <<>> THEN None
    ELSE RemoveHarmful(v)

\* Mutant of SchemaErrors: the different_accounts validator is missing.
SchemaErrorsWithoutDifferentAccounts(raw) ==
    (IF IdentifierField(raw.tx_id, 100) THEN {} ELSE {"tx_id"})
    \cup (IF AmountField(raw.amount) THEN {} ELSE {"amount"})
    \cup (IF CurrencyField(raw.currency) THEN {} ELSE {"currency"})
    \cup (IF IdentifierField(raw.sender_account, 50)
          THEN {} ELSE {"sender_account"})
    \cup (IF IdentifierField(raw.receiver_account, 50)
          THEN {} ELSE {"receiver_account"})
    \cup (IF raw.description = None \/ Len(raw.description) <= 500
          THEN {} ELSE {"description"})

\* WebhookPayload validation of the sent fields: the fields in error.  The
\* different_accounts validator runs on a receiver_account that passed its
\* Field constraints, against a sender_account that passed its own.
SchemaErrors(raw) ==
    (IF IdentifierField(raw.tx_id, 100) THEN {} ELSE {"tx_id"})
    \cup (IF AmountField(raw.amount) THEN {} ELSE {"amount"})
    \cup (IF CurrencyField(raw.currency) THEN {} ELSE {"currency"})
    \cup (IF IdentifierField(raw.sender_account, 50)
          THEN {} ELSE {"sender_account"})
    \cup (IF /\ IdentifierField(raw.receiver_account, 50)
             /\ ~(/\ IdentifierField(raw.sender_account, 50)
                  /\ raw.receiver_account = raw.sender_account)
          THEN {} ELSE {"receiver_account"})
    \cup (IF raw.description = None \/ Len(raw.description) <= 500
          THEN {} ELSE {"description"})

\* The WebhookPayload object built from fields the schema accepts.
WebhookPayload(raw) ==
    Payload(raw.tx_id, raw.amount, raw.currency, raw.sender_account,
            raw.receiver_account, ValidateDescription(raw.description))

\* The HTTP response to a request: status code and JSON content.
HttpResponse(status_code, content) ==
    [status_code |-> status_code, content |-> content]

NoResponse == [none |-> TRUE]

\* The response the application gives for what the dependency or the route
\* returned or raised: the handlers of core/handlers.py raise HTTPException
\* with a detail, FastAPI answers a schema error with 422, slowapi a quota
\* error with 429, and an exception without handler gives a plain 500.
ResponseFor(outcome) ==
    CASE outcome.kind = "PaymentResponse" ->
            HttpResponse(200, [success |-> outcome.success,
                               message |-> outcome.message,
                               status |-> outcome.status,
                               tx_id |-> outcome.tx_id])
      [] outcome.kind = "PaymentValidationError" ->
            HttpResponse(400, [detail |->
                [error |-> "PaymentValidationError",
                 message |-> outcome.message, field |-> outcome.field,
                 details |-> <<"Validation failed for field: ",
                               outcome.field>>]])
      [] outcome.kind = "IdempotencyError" ->
            HttpResponse(409, [detail |->
                [error |-> "IdempotencyError",
                 message |-> <<"Transaction ", outcome.tx_id,
                               " already processed">>,
                 tx_id |-> outcome.tx_id,
                 details |-> <<"Duplicate tx_id: ", outcome.tx_id>>]])
      [] outcome.kind = "SecurityError" ->
            HttpResponse(401, [detail |->
                [error |-> "SecurityError", message |-> outcome.message,
                 context |-> outcome.security_context,
                 details |-> outcome.details]])
      [] outcome.kind = "DatabaseError" ->
            HttpResponse(500, [detail |->
                [error |-> "DatabaseError",
                 message |-> "Internal database error",
                 operation |-> outcome.operation,
                 details |-> outcome.details]])
      [] outcome.kind \in {"NotFoundError", "ConfigurationError"} ->
            \* no handler of their own: the one registered for BaseAppError
            HttpResponse(500, [detail |->
                [error |-> "BaseAppError",
                 message |-> "Internal application error",
                 details |-> outcome.details]])
      [] outcome.kind = "TransactionResponse" ->
            HttpResponse(200, [success |-> outcome.success,
                               message |-> outcome.message,
                               status |-> outcome.status,
                               transaction |-> outcome.transaction])
      [] outcome.kind = "RequestValidationError" ->
            HttpResponse(422, [detail |-> outcome.errors])
      [] outcome.kind = "RateLimitExceeded" ->
            HttpResponse(429, [error |-> <<"Rate limit exceeded: ",
                                           outcome.limit>>])
      [] OTHER -> HttpResponse(500, "Internal Server Error")

\* ------------------------------------------------------------------- state

Calls == 1..MaxCalls

VARIABLES
    store,     \* the "transactions" collection: a sequence of documents
    pc,        \* pc[h]: where call h of process_webhook stands
    payload,   \* payload[h]: the payload call h was given
    result,    \* result[h]: what call h returned or raised
    ops,       \* ops[h]: the store operations call h awaited, with outcomes
    late,      \* late[h]: call h began after a 'processed' return for its tx_id
    fault      \* fault[h]: text of the error the store driver raised into call h

svcVars == <<store, pc, payload, result, ops, late, fault>>

VARIABLES
    hmac_secret,  \* HMAC_SECRET, read once from the environment
    now,          \* int(time.time())
    request,      \* the presented X-Signature, X-Timestamp and raw body
    signed,       \* what the sender signed: its secret, timestamp text, body
    verdict,      \* what verify_hmac_signature returned or raised for request
    checks,       \* the checks verify_hmac_signature made for request, in order
    prev,         \* the presentation before this one, with its verdict
    tampered      \* the request was presented again with a header or body changed

verVars == <<hmac_secret, now, request, signed, verdict, checks, prev, tampered>>

VARIABLES
    stage,         \* where the webhook request in progress stands
    response,      \* the HTTP response to that request
    default_hits,  \* this client's count under the default limit, this minute
    route_limits,  \* how many limits the decorator has registered for handle_request
    route_hits,    \* this client's count under the route limit, this minute
    served,        \* webhook requests received so far
    last           \* the previous request, with its verdict and response

webVars ==
    <<stage, response, default_hits, route_limits, route_hits, served, last>>

VARIABLES
    get_pc,        \* where the get_transaction_by_id call in progress stands
    get_tx_id,     \* the tx_id it was given
    get_lookup,    \* what its find_one returned or raised
    get_result,    \* what the call returned or raised
    get_response   \* the HTTP response of GET /payments/transaction/{tx_id}

getVars == <<get_pc, get_tx_id, get_lookup, get_result, get_response>>

VARIABLES
    fn,    \* the function applied on its own ("none": no such application)
    arg,   \* what it is applied to
    ret    \* what it returned or raised

fnVars == <<fn, arg, ret>>

VARIABLES
    ai_pc,       \* where the analyze_transactions call stands
    ai_calls,    \* call_count of client.models.generate_content
    ai_raised,   \* what the calls so far raised, in order
    ai_result    \* what analyze_transactions returned or raised

aiVars == <<ai_pc, ai_calls, ai_raised, ai_result>>

VARIABLES
    mongo_url,    \* MONGO_URL in the environment
    db_pc,        \* where init_db stands
    db_attempts,  \* the attempts of init_db's body made so far, in order
    db_connects,  \* connections opened (clients created and pinged)
    db_client,    \* the global _db_client
    db_result,    \* what init_db returned or raised
    db_got        \* what the last get_database_client returned or raised

VARIABLES
    monitoring_api_key,  \* MONITORING_API_KEY in the environment
    mon_header,          \* X-Monitoring-Key of the last request
    mon_access,          \* what verify_monitoring_access did for it
    mon_hits,            \* calls of the route counted in the current minute
    mon_response         \* the response to the last request

monVars ==
    <<monitoring_api_key, mon_header, mon_access, mon_hits, mon_response>>

dbVars ==
    <<mongo_url, db_pc, db_attempts, db_connects, db_client, db_result, db_got>>

vars ==
    <<svcVars, verVars, webVars, getVars, fnVars, aiVars, dbVars, monVars>>

NoRequest == [none |-> TRUE]
NoLookup == [kind |-> "none"]

\* payload[h] of a call that has not been made.
NoPayload == [none |-> TRUE]
NoPresentation == [none |-> TRUE]

\* No webhook request is being verified (the specifications of the service).
VerIdle ==
    /\ hmac_secret = None
    /\ now = Now0
    /\ request = NoRequest
    /\ signed = NoRequest
    /\ verdict = NoResult
    /\ checks = <<>>
    /\ prev = NoPresentation
    /\ tampered = FALSE

\* No webhook request has been received over HTTP.
WebIdle ==
    /\ stage = "none"
    /\ response = NoResponse
    /\ default_hits = 0
    /\ route_limits = 0
    /\ route_hits = 0
    /\ served = 0
    /\ last = NoRequest

\* analyze_transactions has not been called.
AiIdle ==
    /\ ai_pc = "idle"
    /\ ai_calls = 0
    /\ ai_raised = <<>>
    /\ ai_result = NoResult

\* `_db_client = None`
NoClient == [none |-> TRUE]

\* init_db has not been called: the module's `_db_client = None`.
DbIdle ==
    /\ mongo_url = None
    /\ db_pc = "idle"
    /\ db_attempts = <<>>
    /\ db_connects = 0
    /\ db_client = NoClient
    /\ db_result = NoResult
    /\ db_got = NoResult

\* No request to /monitoring/errors has been made.
MonIdle ==
    /\ monitoring_api_key = None
    /\ mon_header = None
    /\ mon_access = NoResult
    /\ mon_hits = 0
    /\ mon_response = NoResponse

\* No function is applied on its own.
FnIdle ==
    /\ fn = "none"
    /\ arg = None
    /\ ret = NoResult

\* No retrieval has been asked for.
GetIdle ==
    /\ get_pc = "idle"
    /\ get_tx_id = None
    /\ get_lookup = NoLookup
    /\ get_result = NoResult
    /\ get_response = NoResponse

StoreOp(op, outcome) == [op |-> op, outcome |-> outcome]

\* The calls that have returned 'processed' for tx_id.
ProcessedCalls(tx_id) ==
    { g \in Calls : pc[g] = "done" /\ result[g].kind = "PaymentResponse"
                    /\ result[g].status = "processed"
                    /\ payload[g].tx_id = tx_id }

SvcInit ==
    /\ store = <<>>
    /\ pc = [h \in Calls |-> "idle"]
    /\ payload = [h \in Calls |-> NoPayload]
    /\ result = [h \in Calls |-> NoResult]
    /\ ops = [h \in Calls |-> <<>>]
    /\ late = [h \in Calls |-> FALSE]
    /\ fault = [h \in Calls |-> None]

\* process_webhook(payload) is entered: _validate_payment_data runs before
\* the first await, so a rule violation ends the call at once.
Call(h, p) ==
    /\ pc[h] = "idle"
    /\ IF h = 1 THEN TRUE ELSE pc[h - 1] /= "idle"
    /\ payload' = [payload EXCEPT ![h] = p]
    /\ late' = [late EXCEPT ![h] = ProcessedCalls(p.tx_id) /= {}]
    /\ IF ValidatePaymentData(p) /= NoResult
       THEN /\ pc' = [pc EXCEPT ![h] = "done"]
            /\ result' = [result EXCEPT ![h] = ValidatePaymentData(p)]
       ELSE /\ pc' = [pc EXCEPT ![h] = "find_one"]
            /\ UNCHANGED result
    /\ UNCHANGED <<store, ops, fault>>
    /\ UNCHANGED <<verVars, webVars, getVars, fnVars, aiVars, dbVars, monVars>>

\* `existing_tx = await Transaction.find_one(...)` returns.
FindOneReturns(h) ==
    /\ pc[h] = "find_one"
    /\ IF FindOne(store, payload[h].tx_id) /= NoDocument
       THEN /\ pc' = [pc EXCEPT ![h] = "done"]
            /\ result' = [result EXCEPT ![h] = DuplicateResponse(payload[h])]
            /\ ops' = [ops EXCEPT ![h] = Append(@, StoreOp("find_one", "found"))]
       ELSE /\ pc' = [pc EXCEPT ![h] = "insert"]
            /\ ops' = [ops EXCEPT ![h] = Append(@, StoreOp("find_one", "absent"))]
            /\ UNCHANGED result
    /\ UNCHANGED <<store, payload, late, fault>>
    /\ UNCHANGED <<verVars, webVars, getVars, fnVars, aiVars, dbVars, monVars>>

\* `await new_transaction.insert()` returns or raises DuplicateKeyError.
InsertReturns(h) ==
    /\ pc[h] = "insert"
    /\ pc' = [pc EXCEPT ![h] = "done"]
    /\ IF InsertRejected(store, NewTransaction(payload[h]))
       THEN /\ result' = [result EXCEPT ![h] = DuplicateKeyOutcome(payload[h])]
            /\ ops' = [ops EXCEPT ![h] =
                          Append(@, StoreOp("insert", "DuplicateKeyError"))]
            /\ UNCHANGED store
       ELSE /\ store' = InsertApplied(store, NewTransaction(payload[h]))
            /\ result' = [result EXCEPT ![h] = ProcessedResponse(payload[h])]
            /\ ops' = [ops EXCEPT ![h] = Append(@, StoreOp("insert", "applied"))]
    /\ UNCHANGED <<payload, late, fault>>
    /\ UNCHANGED <<verVars, webVars, getVars, fnVars, aiVars, dbVars, monVars>>

\* The lookup fails (connection loss, timeout, ...): `except Exception`.
FindOneFails(h, e) ==
    /\ pc[h] = "find_one"
    /\ pc' = [pc EXCEPT ![h] = "done"]
    /\ fault' = [fault EXCEPT ![h] = e]
    /\ result' = [result EXCEPT ![h] = StoreFailureOutcome(e)]
    /\ ops' = [ops EXCEPT ![h] = Append(@, StoreOp("find_one", "failed"))]
    /\ UNCHANGED <<store, payload, late>>
    /\ UNCHANGED <<verVars, webVars, getVars, fnVars, aiVars, dbVars, monVars>>

\* Mutant of InsertFails: the failed insert is attempted again.
InsertFailsAndIsRetried(h, written, e) ==
    /\ pc[h] = "insert"
    /\ fault' = [fault EXCEPT ![h] = e]
    /\ IF written /\ ~InsertRejected(store, NewTransaction(payload[h]))
       THEN /\ store' = InsertApplied(store, NewTransaction(payload[h]))
            /\ ops' = [ops EXCEPT ![h] =
                          Append(@, StoreOp("insert", "failed_after_write"))]
       ELSE /\ UNCHANGED store
            /\ ops' = [ops EXCEPT ![h] = Append(@, StoreOp("insert", "failed"))]
    /\ UNCHANGED <<pc, result, payload, late>>
    /\ UNCHANGED <<verVars, webVars, getVars, fnVars, aiVars, dbVars, monVars>>

\* The insert raises something other than DuplicateKeyError.  The write may
\* have reached the collection before the failure (a timeout on the reply)
\* or not; the unique index still applies to it.
InsertFails(h, written, e) ==
    /\ pc[h] = "insert"
    /\ pc' = [pc EXCEPT ![h] = "done"]
    /\ fault' = [fault EXCEPT ![h] = e]
    /\ result' = [result EXCEPT ![h] = StoreFailureOutcome(e)]
    /\ IF written /\ ~InsertRejected(store, NewTransaction(payload[h]))
       THEN /\ store' = InsertApplied(store, NewTransaction(payload[h]))
            /\ ops' = [ops EXCEPT ![h] =
                          Append(@, StoreOp("insert", "failed_after_write"))]
       ELSE /\ UNCHANGED store
            /\ ops' = [ops EXCEPT ![h] = Append(@, StoreOp("insert", "failed"))]
    /\ UNCHANGED <<payload, late>>
    /\ UNCHANGED <<verVars, webVars, getVars, fnVars, aiVars, dbVars, monVars>>

\* ----------------------------------------------------------- specifications

Init == SvcInit /\ VerIdle /\ WebIdle /\ GetIdle /\ FnIdle
    /\ AiIdle /\ DbIdle /\ MonIdle

\* Concurrent process_webhook calls over a store that never fails.
Next ==
    \E h \in Calls :
        \/ \E p \in Payloads : Call(h, p)
        \/ FindOneReturns(h)
        \/ InsertReturns(h)

Spec == Init /\ [][Next]_vars

\* The same calls over a store whose lookup and insert may fail (with a
\* connection loss).
NextFaulty ==
    \/ Next
    \/ \E h \in Calls : FindOneFails(h, <<"Database connection failed">>)
    \/ \E h \in Calls, written \in BOOLEAN :
           InsertFails(h, written, <<"Database connection failed">>)

FaultySpec == Init /\ [][NextFaulty]_vars

\* Calls with payloads that pass the business rules, over a store whose
\* lookup and insert may fail with any of the driver's errors.
NextDriverFault ==
    \E h \in Calls :
        \/ \E p \in ValidPayloads : Call(h, p)
        \/ FindOneReturns(h)
        \/ InsertReturns(h)
        \/ \E e \in DriverErrors : FindOneFails(h, e)
        \/ \E written \in BOOLEAN, e \in DriverErrors : InsertFails(h, written, e)

DriverFaultSpec == Init /\ [][NextDriverFault]_vars

\* ------------------------------------------------- get_transaction_by_id

TransactionResponse(success, message, status, transaction) ==
    [kind |-> "TransactionResponse", success |-> success, message |-> message,
     status |-> status, transaction |-> transaction]

\* The attributes get_transaction_by_id reads from what find_one returned.
TransactionAttributes ==
    {"tx_id", "amount", "currency", "sender_account", "receiver_account",
     "status", "description"}

\* What a lookup can return for tx_id when the collection holds a document
\* that is not a well-formed transaction: an object whose required currency
\* is null, and a bare mapping without the attributes.
CorruptObjects(tx_id) ==
    { [tx_id |-> tx_id, amount |-> DecimalToFloat(10050), currency |-> None,
       sender_account |-> None, receiver_account |-> None, status |-> None,
       description |-> None],
      [tx_id |-> tx_id, amount |-> DecimalToFloat(10050)] }

\* The exception TransactionDetails(tx_id=transaction.tx_id, ...) ends with,
\* None if it builds the details: reading a missing attribute raises
\* AttributeError, a null required field a pydantic ValidationError.
TransactionDetailsError(transaction) ==
    IF ~(TransactionAttributes \subseteq DOMAIN transaction)
    THEN <<"object has no attribute">>
    ELSE IF transaction.tx_id = None \/ transaction.currency = None
    THEN <<"validation error for TransactionDetails">>
    ELSE None

\* TransactionDetails(...) for a transaction it accepts; the float amount is
\* read back as the Decimal of its shortest decimal form.
TransactionDetails(transaction) ==
    [tx_id |-> transaction.tx_id, amount |-> transaction.amount.nearest,
     currency |-> transaction.currency,
     sender_account |-> transaction.sender_account,
     receiver_account |-> transaction.receiver_account,
     status |-> transaction.status, description |-> transaction.description]

\* Mutant of RetrievalFailureOutcome: the text of the caught exception is
\* passed on as database_error=str(e).
RetrievalFailureWithDriverText(e) ==
    DatabaseError("Failed to retrieve transaction", <<"find_transaction">>, e)

\* `except Exception: raise DatabaseError("Failed to retrieve transaction",
\* operation="find_transaction")`; the caught exception `e` is only logged.
RetrievalFailureOutcome(e) ==
    DatabaseError("Failed to retrieve transaction", <<"find_transaction">>,
                  None)

\* Mutant of AbsentOutcome: absence is answered with a sentinel result.
AbsentAsSentinel(tx_id) ==
    TransactionResponse(FALSE, "Transaction not found", "not_found", None)

\* `if not transaction: raise NotFoundError("Transaction", tx_id)`, which
\* `except NotFoundError: raise` lets through.
AbsentOutcome(tx_id) == NotFoundError(<<"Transaction">>, tx_id)

\* What get_transaction_by_id(tx_id) returns or raises once find_one has
\* returned `transaction`.
GetOutcome(transaction, tx_id) ==
    IF transaction = NoDocument THEN AbsentOutcome(tx_id)
    ELSE IF TransactionDetailsError(transaction) /= None
    THEN RetrievalFailureOutcome(TransactionDetailsError(transaction))
    ELSE TransactionResponse(TRUE, "Transaction found successfully", "found",
                             TransactionDetails(transaction))

\* GET /payments/transaction/{tx_id} reaches get_transaction, which calls
\* get_transaction_by_id(tx_id) (requests within the default rate limit).
GetCall(tx_id) ==
    /\ get_pc \in {"idle", "responded"}
    /\ get_pc' = "find_one"
    /\ get_tx_id' = tx_id
    /\ get_lookup' = NoLookup
    /\ get_result' = NoResult
    /\ get_response' = NoResponse
    /\ UNCHANGED <<svcVars, verVars, webVars, fnVars, aiVars, dbVars, monVars>>

\* `transaction = await Transaction.find_one({"tx_id": tx_id})` returns and
\* the call runs to its return or raise.
GetFindOneReturns ==
    /\ get_pc = "find_one"
    /\ get_pc' = "done"
    /\ get_lookup' = [kind |-> "returned",
                      transaction |-> FindOne(store, get_tx_id)]
    /\ get_result' = GetOutcome(FindOne(store, get_tx_id), get_tx_id)
    /\ UNCHANGED <<get_tx_id, get_response>>
    /\ UNCHANGED <<svcVars, verVars, webVars, fnVars, aiVars, dbVars, monVars>>

\* find_one returns an object that is not a well-formed transaction.
GetFindOneReturnsCorrupt(transaction) ==
    /\ get_pc = "find_one"
    /\ get_pc' = "done"
    /\ get_lookup' = [kind |-> "corrupt", transaction |-> transaction]
    /\ get_result' = GetOutcome(transaction, get_tx_id)
    /\ UNCHANGED <<get_tx_id, get_response>>
    /\ UNCHANGED <<svcVars, verVars, webVars, fnVars, aiVars, dbVars, monVars>>

\* find_one raises (connection loss, timeout, ...).
GetFindOneFails(e) ==
    /\ get_pc = "find_one"
    /\ get_pc' = "done"
    /\ get_lookup' = [kind |-> "raised", text |-> e]
    /\ get_result' = RetrievalFailureOutcome(e)
    /\ UNCHANGED <<get_tx_id, get_response>>
    /\ UNCHANGED <<svcVars, verVars, webVars, fnVars, aiVars, dbVars, monVars>>

\* get_transaction returns the result, or the exception reaches the
\* application's handlers: the response is sent.
GetRespond ==
    /\ get_pc = "done"
    /\ get_pc' = "responded"
    /\ get_response' = ResponseFor(get_result)
    /\ UNCHANGED <<get_tx_id, get_lookup, get_result>>
    /\ UNCHANGED <<svcVars, verVars, webVars, fnVars, aiVars, dbVars, monVars>>

\* Retrievals next to concurrent process_webhook calls, over a store whose
\* lookups may fail or return a malformed document.
NextRetrieval ==
    \/ \E h \in Calls :
           \/ \E p \in ValidPayloads : Call(h, p)
           \/ FindOneReturns(h)
           \/ InsertReturns(h)
    \/ \E tx_id \in TxIds : GetCall(tx_id)
    \/ GetFindOneReturns
    \/ \E transaction \in CorruptObjects(get_tx_id) :
           GetFindOneReturnsCorrupt(transaction)
    \/ \E e \in DriverErrors : GetFindOneFails(e)
    \/ GetRespond

RetrievalSpec == Init /\ [][NextRetrieval]_vars

\* ------------------------------------------------------------ to_safe_dict

\* Messages and internal diagnostic texts errors are built with.
ErrorMessages == {"Invalid signature", "Failed to process transaction"}
DiagnosticTexts == {None, <<"webhook_authentication">>, <<"mongodb://db:27017">>}

\* The errors of the kinds that override to_safe_dict.
SanitizedErrors ==
    { SecurityError(m, c) : m \in ErrorMessages, c \in DiagnosticTexts }
    \cup { DatabaseError(m, o, d) :
              m \in ErrorMessages, o \in DiagnosticTexts, d \in DiagnosticTexts }
    \cup { ConfigurationError(m, k, v) :
              m \in ErrorMessages, k \in DiagnosticTexts, v \in DiagnosticTexts }

\* Two errors of the same kind are about to be rendered.
RenderInit ==
    /\ fn = "to_safe_dict"
    /\ arg \in { pair \in SanitizedErrors \X SanitizedErrors :
                    pair[1].kind = pair[2].kind }
    /\ ret = NoResult

\* err.to_safe_dict() for both.
Render ==
    /\ fn = "to_safe_dict"
    /\ ret = NoResult
    /\ ret' = [kind |-> "rendered", first |-> ToSafeDict(arg[1]),
                second |-> ToSafeDict(arg[2])]
    /\ UNCHANGED <<fn, arg>>
    /\ UNCHANGED <<svcVars, verVars, webVars, getVars, aiVars, dbVars, monVars>>

InitRender == SvcInit /\ VerIdle /\ WebIdle /\ GetIdle /\ RenderInit
    /\ AiIdle /\ DbIdle /\ MonIdle

NextRender == Render

RenderSpec == InitRender /\ [][NextRender]_vars

\* ------------------------------------------------------------- progress

\* The calls whose progress is followed.
MaxLiveCalls == 2
LiveCalls == 1..MaxLiveCalls

\* The store's failure here is a timeout.
Timeout == <<"Database Timeout">>

\* Payloads of two different tx_ids.
LivePayloads == { p \in ValidPayloads : p.description = None }

\* The store answers call h: its pending lookup or insert returns or fails.
StoreAnswers(h) ==
    \/ FindOneReturns(h)
    \/ InsertReturns(h)
    \/ FindOneFails(h, Timeout)
    \/ \E written \in BOOLEAN : InsertFails(h, written, Timeout)

\* The store answers the retrieval.
StoreAnswersGet ==
    \/ GetFindOneReturns
    \/ \E transaction \in CorruptObjects(get_tx_id) :
           GetFindOneReturnsCorrupt(transaction)
    \/ GetFindOneFails(Timeout)

\* Calls and a retrieval over a store that may fail.
NextLive ==
    \/ \E h \in LiveCalls :
           \/ \E p \in LivePayloads : Call(h, p)
           \/ StoreAnswers(h)
    \/ GetCall(T1)
    \/ StoreAnswersGet

\* The store answers the first call and the retrieval in the end (a driver
\* timeout is an answer); nothing is assumed about the answers to the other
\* calls, which may stay pending for ever.
LiveSpec ==
    /\ Init
    /\ [][NextLive]_vars
    /\ WF_vars(StoreAnswers(1))
    /\ WF_vars(StoreAnswersGet)

\* ------------------------------------------------ WebhookPayload(**fields)

\* A Decimal as sent: unscaled digits and the number of decimal places
\* (Decimal("100.555") is 100555 with 3 places).
Decimal(unscaled, scale) == [unscaled |-> unscaled, scale |-> scale]

\* The error type of Field(gt=0, decimal_places=2, max_digits=15) for an
\* amount: the digit constraints are checked before the bound; there is no
\* upper bound.
AmountErrors(d) ==
    IF d.scale > 2 THEN {"decimal_max_places"}
    ELSE IF Len(IntToStr(IF d.unscaled < 0 THEN -d.unscaled ELSE d.unscaled)) > 15
    THEN {"decimal_max_digits"}
    ELSE IF d.unscaled <= 0 THEN {"greater_than"}
    ELSE {}

\* An accepted amount in cents.
Cents(d) ==
    CASE d.scale = 0 -> d.unscaled * 100
      [] d.scale = 1 -> d.unscaled * 10
      [] d.scale = 2 -> d.unscaled

\* pydantic's ValidationError: the fields in error, and the error types of
\* the amount.
ValidationError(fields, amount_errors) ==
    [kind |-> "ValidationError", fields |-> fields,
     amount_errors |-> amount_errors]

\* WebhookPayload(**raw): the validated object, or ValidationError.
ModelValidate(raw) ==
    LET sent == [raw EXCEPT !.amount = IF AmountErrors(raw.amount) = {}
                                       THEN Cents(raw.amount) ELSE 0]
    IN  IF SchemaErrors(sent) /= {}
        THEN ValidationError(SchemaErrors(sent), AmountErrors(raw.amount))
        ELSE [kind |-> "WebhookPayload", payload |-> WebhookPayload(sent)]

\* Descriptions sent: none, every text of up to MaxDescriptionLen of these
\* characters, and the text made of all the markup characters.
MaxDescriptionLen == 2
DescriptionChars == {"<", "'", ";", "&", " ", "a"}
SentDescriptions ==
    {None, <<"<", ">", "\"", "'", ";", "&">>, <<"a", "<", "b", ";", "&">>}
    \cup UNION { [1..n -> DescriptionChars] : n \in 0..MaxDescriptionLen }

\* Amounts sent: 100.50, 0.01, 1, 1000000.00, 1000001.00, 0, -10.00, 100.555.
SentAmounts ==
    { Decimal(10050, 2), Decimal(1, 2), Decimal(1, 0), Decimal(100000000, 2),
      Decimal(100000100, 2), Decimal(0, 0), Decimal(-1000, 2),
      Decimal(100555, 3) }

\* The fields of a payload about to be validated.
SchemaInit ==
    /\ fn = "WebhookPayload"
    /\ arg \in { Payload(T1, amount, USD, A1, A2, description) :
                    amount \in SentAmounts, description \in SentDescriptions }
    /\ ret = NoResult

\* WebhookPayload(**arg)
Validate ==
    /\ fn = "WebhookPayload"
    /\ ret = NoResult
    /\ ret' = ModelValidate(arg)
    /\ UNCHANGED <<fn, arg>>
    /\ UNCHANGED <<svcVars, verVars, webVars, getVars, aiVars, dbVars, monVars>>

InitSchema == SvcInit /\ VerIdle /\ WebIdle /\ GetIdle /\ SchemaInit
    /\ AiIdle /\ DbIdle /\ MonIdle

NextSchema == Validate

SchemaSpec == InitSchema /\ [][NextSchema]_vars

\* ------------------------------------------- AIService.analyze_transactions

\* BaseAppError(message, details=...)
BaseAppError(message, details) ==
    [kind |-> "BaseAppError", http_status_code |-> 500, message |-> message,
     details |-> details, context |-> {}]

\* Exception classes generate_content can raise (the SDK's APIError among
\* them), and their base classes below Exception.
AiExceptions ==
    {"ConnectionError", "TimeoutError", "OSError", "BrokenPipeError",
     "ValueError", "APIError"}

BaseClasses(c) ==
    CASE c = "ConnectionError" -> {"OSError"}
      [] c = "TimeoutError" -> {"OSError"}
      [] c = "BrokenPipeError" -> {"ConnectionError", "OSError"}
      [] OTHER -> {}

\* isinstance(exc, types)
IsInstance(c, types) == ({c} \cup BaseClasses(c)) \cap types /= {}

\* @retry(stop=stop_after_attempt(3), retry=retry_if_exception_type(...))
StopAfterAttempt == 3
RetryOn == {"ConnectionError", "TimeoutError", "OSError"}

\* Mutant of ShouldRetry: every exception type is retried.
ShouldRetryAnyException(c, attempt_number) == attempt_number < StopAfterAttempt

\* tenacity after a failed attempt: call again (after the wait) when the
\* exception is of a retried type and the stop condition is not reached;
\* otherwise re-raise it (reraise=True).
ShouldRetry(c, attempt_number) ==
    IsInstance(c, RetryOn) /\ attempt_number < StopAfterAttempt

\* What generate_content can return: None, an object without a `text`
\* attribute, a response whose text is None, empty or a text.
AiResponses ==
    { [kind |-> "None"], [kind |-> "object"],
      [kind |-> "response", text |-> None],
      [kind |-> "response", text |-> <<>>],
      [kind |-> "response", text |-> <<" ", "o", "k", " ">>] }

\* analyze_transactions after the model call returned.
AnalyzeReturn(reply) ==
    [kind |-> "str",
     value |-> IF reply.kind \in {"None", "object"} THEN <<>>
               ELSE IF Truthy(reply.text) THEN Strip(reply.text)
               ELSE <<>>]

\* analyze_transactions after _call_ai_model raised: `except BaseAppError:
\* raise`, anything else becomes BaseAppError("AI analysis failed").
AnalyzeFailure(c) ==
    IF IsInstance(c, {"BaseAppError"})
    THEN BaseAppError("raised by the model call", None)
    ELSE BaseAppError("AI analysis failed",
                      <<"ai_service_analyze_transactions">>)

\* analyze_transactions(transactions) is awaited: the prompt is built and
\* _call_ai_model handed to the executor.
AnalyzeTransactions ==
    /\ ai_pc = "idle"
    /\ ai_pc' = "calling"
    /\ UNCHANGED <<ai_calls, ai_raised, ai_result>>
    /\ UNCHANGED <<svcVars, verVars, webVars, getVars, fnVars, dbVars, monVars>>

\* generate_content returns: no further attempt.
GenerateContentReturns(reply) ==
    /\ ai_pc = "calling"
    /\ ai_calls' = ai_calls + 1
    /\ ai_pc' = "done"
    /\ ai_result' = AnalyzeReturn(reply)
    /\ UNCHANGED ai_raised
    /\ UNCHANGED <<svcVars, verVars, webVars, getVars, fnVars, dbVars, monVars>>

\* generate_content raises: tenacity retries or re-raises.
GenerateContentRaises(c) ==
    /\ ai_pc = "calling"
    /\ ai_calls' = ai_calls + 1
    /\ ai_raised' = Append(ai_raised, c)
    /\ IF ShouldRetry(c, ai_calls + 1)
       THEN UNCHANGED <<ai_pc, ai_result>>
       ELSE /\ ai_pc' = "done"
            /\ ai_result' = AnalyzeFailure(c)
    /\ UNCHANGED <<svcVars, verVars, webVars, getVars, fnVars, dbVars, monVars>>

InitAi == SvcInit /\ VerIdle /\ WebIdle /\ GetIdle /\ FnIdle
    /\ AiIdle /\ DbIdle /\ MonIdle

NextAi ==
    \/ AnalyzeTransactions
    \/ \E reply \in AiResponses : GenerateContentReturns(reply)
    \/ \E c \in AiExceptions : GenerateContentRaises(c)

AiSpec == InitAi /\ [][NextAi]_vars

\* ------------------------------------------------------------------ init_db

\* Values of MONGO_URL: unset, empty, without a scheme, with another scheme,
\* and with each of the two accepted schemes.
MongoUrls ==
    { None, <<>>,
      <<"h", ":", "1">>,
      <<"h", "t", "t", "p", ":", "/", "/", "h">>,
      <<"m", "o", "n", "g", "o", "d", "b", ":", "/", "/", "h", "/", "d">>,
      <<"m", "o", "n", "g", "o", "d", "b", "+", "s", "r", "v", ":", "/", "/",
        "h", "/", "d">> }

MongoSchemes ==
    { <<"m", "o", "n", "g", "o", "d", "b", ":", "/", "/">>,
      <<"m", "o", "n", "g", "o", "d", "b", "+", "s", "r", "v", ":", "/", "/">> }

\* The configuration checks at the head of init_db's body: the
\* ConfigurationError raised, or NoResult.
ConfigCheck(url) ==
    IF ~Truthy(url)
    THEN ConfigurationError("MONGO_URL environment variable is not set",
                            <<"MONGO_URL">>,
                            <<"mongodb://localhost:27017/autopay">>)
    ELSE IF ~\E scheme \in MongoSchemes : StartsWith(url, scheme)
    THEN ConfigurationError("Invalid MONGO_URL format",
                            <<"MONGO_URL">>,
                            <<"mongodb://localhost:27017/autopay">>)
    ELSE NoResult

\* How an attempt that got past the configuration checks can fail: the ping
\* does not answer within 5 seconds, the ping raises, init_beanie raises.
ConnectFailures == {"ping_timeout", "ping_raised", "init_beanie_raised"}

\* What init_db's body raises for such a failure: `except
\* asyncio.TimeoutError` around the ping, `except Exception` around the body.
ConnectFailure(how) ==
    IF how = "ping_timeout"
    THEN DatabaseError("Database connection timeout", <<"ping_test">>, None)
    ELSE DatabaseError("Database initialization failed", <<"init_db">>, None)

\* The client made by the n-th connection.
Client(n) == [client |-> n]

\* stop=stop_after_attempt(3)
DbStopAfterAttempt == 3

\* Mutant of DbShouldRetry: one attempt more.
DbShouldRetryOnceMore(attempt_number) == attempt_number <= DbStopAfterAttempt

\* @retry without a `retry=` argument retries on every Exception, the
\* ConfigurationError included, until the stop condition.
DbShouldRetry(attempt_number) == attempt_number < DbStopAfterAttempt

\* One attempt of init_db's body: connected says whether a client was created
\* and pinged, raised what the body raised (NoResult when it returned).
DbAttempt(connected, raised) == [connected |-> connected, raised |-> raised]

\* The startup awaits init_db().
InitDb ==
    /\ db_pc = "idle"
    /\ db_pc' = "attempt"
    /\ UNCHANGED <<mongo_url, db_attempts, db_connects, db_client, db_result,
                   db_got>>
    /\ UNCHANGED <<svcVars, verVars, webVars, getVars, fnVars, aiVars, monVars>>

\* The attempt raised: tenacity waits and runs the body again, or re-raises
\* the exception of this last attempt (reraise=True); monitor_errors logs
\* and re-raises it.
DbAttemptRaised(connected, raised) ==
    /\ db_attempts' = Append(db_attempts, DbAttempt(connected, raised))
    /\ IF DbShouldRetry(Len(db_attempts) + 1)
       THEN UNCHANGED <<db_pc, db_result>>
       ELSE /\ db_pc' = "raised"
            /\ db_result' = raised
    /\ UNCHANGED <<mongo_url, db_client, db_got>>
    /\ UNCHANGED <<svcVars, verVars, webVars, getVars, fnVars, aiVars, monVars>>

\* An attempt stops at a configuration check, before a client is created.
AttemptConfigFails ==
    /\ db_pc = "attempt"
    /\ ConfigCheck(mongo_url) /= NoResult
    /\ UNCHANGED db_connects
    /\ DbAttemptRaised(FALSE, ConfigCheck(mongo_url))

\* An attempt creates a client and fails at the ping or at init_beanie;
\* `_db_client` is not assigned.
AttemptConnectFails(how) ==
    /\ db_pc = "attempt"
    /\ ConfigCheck(mongo_url) = NoResult
    /\ db_connects' = db_connects + 1
    /\ DbAttemptRaised(TRUE, ConnectFailure(how))

\* An attempt creates a client, the ping and init_beanie succeed,
\* `_db_client = client; return client`.
AttemptSucceeds ==
    /\ db_pc = "attempt"
    /\ ConfigCheck(mongo_url) = NoResult
    /\ db_connects' = db_connects + 1
    /\ db_attempts' = Append(db_attempts, DbAttempt(TRUE, NoResult))
    /\ db_client' = Client(db_connects + 1)
    /\ db_result' = Client(db_connects + 1)
    /\ db_pc' = "returned"
    /\ UNCHANGED <<mongo_url, db_got>>
    /\ UNCHANGED <<svcVars, verVars, webVars, getVars, fnVars, aiVars, monVars>>

\* One attempt of init_db is made and ends.
Attempt ==
    \/ AttemptConfigFails
    \/ \E how \in ConnectFailures : AttemptConnectFails(how)
    \/ AttemptSucceeds

\* get_database_client(): the global client, or DatabaseError when it is None.
GetDatabaseClient ==
    /\ db_got' = IF db_client = NoClient
                 THEN DatabaseError(
                          "Database not initialized. Call init_db() first.",
                          <<"get_client">>, None)
                 ELSE db_client
    /\ db_got' /= db_got
    /\ UNCHANGED <<mongo_url, db_pc, db_attempts, db_connects, db_client,
                   db_result>>
    /\ UNCHANGED <<svcVars, verVars, webVars, getVars, fnVars, aiVars, monVars>>

\* close_database() at shutdown, which is reached only when the startup's
\* init_db returned.
CloseDatabase ==
    /\ db_pc = "returned"
    /\ db_pc' = "closed"
    /\ db_client' = NoClient
    /\ UNCHANGED <<mongo_url, db_attempts, db_connects, db_result, db_got>>
    /\ UNCHANGED <<svcVars, verVars, webVars, getVars, fnVars, aiVars, monVars>>

\* The process starts with some MONGO_URL and no client.
DbInit ==
    /\ mongo_url \in MongoUrls
    /\ db_pc = "idle"
    /\ db_attempts = <<>>
    /\ db_connects = 0
    /\ db_client = NoClient
    /\ db_result = NoResult
    /\ db_got = NoResult

InitDatabase == SvcInit /\ VerIdle /\ WebIdle /\ GetIdle /\ FnIdle
    /\ AiIdle /\ DbInit /\ MonIdle

NextDb ==
    \/ InitDb
    \/ Attempt
    \/ GetDatabaseClient
    \/ CloseDatabase

\* Every await of an attempt ends: the ping is cut off after 5 seconds and
\* the driver's operations after its server-selection and socket timeouts.
DbSpec == InitDatabase /\ [][NextDb]_vars /\ WF_vars(Attempt)

\* -------------------------------------------------------- /monitoring/errors

\* Values of MONITORING_API_KEY (unset, empty, a key) and of the
\* X-Monitoring-Key header (absent, empty, a key, another key, part of a key,
\* a key with a character outside ASCII).
MonitoringKeys == {None, <<>>, K1, K2}
MonitoringHeaders ==
    {None, <<>>, K1, K2, <<"k">>, <<"k", NonAscii>>}

HTTPException(status_code, detail) ==
    [kind |-> "HTTPException", status_code |-> status_code, detail |-> detail]

\* verify_monitoring_access returned.
AccessGranted == [kind |-> "granted"]

\* Mutant of VerifyMonitoringAccess: without a configured key everybody is
\* let in.
VerifyMonitoringAccessFailOpen(expected_key, x_monitoring_key) ==
    IF ~Truthy(expected_key)
    THEN AccessGranted
    ELSE IF ~Truthy(x_monitoring_key)
            \/ (IsAscii(x_monitoring_key)
                /\ ~CompareDigest(x_monitoring_key, expected_key))
    THEN HTTPException(403, "Invalid monitoring credentials")
    ELSE IF ~IsAscii(x_monitoring_key)
    THEN TypeError("comparing strings with non-ASCII characters is not supported")
    ELSE AccessGranted

\* verify_monitoring_access with MONITORING_API_KEY = expected_key.
\* compare_digest raises TypeError when the header is not ASCII.
VerifyMonitoringAccess(expected_key, x_monitoring_key) ==
    IF ~Truthy(expected_key)
    THEN HTTPException(403, "Monitoring access not configured")
    ELSE IF ~Truthy(x_monitoring_key)
    THEN HTTPException(403, "Invalid monitoring credentials")
    ELSE IF ~IsAscii(x_monitoring_key)
    THEN TypeError("comparing strings with non-ASCII characters is not supported")
    ELSE IF ~CompareDigest(x_monitoring_key, expected_key)
    THEN HTTPException(403, "Invalid monitoring credentials")
    ELSE AccessGranted

\* @limiter.limit("10/minute")
MonitoringLimitPerMinute == 10

\* error_monitor.get_error_summary()
ErrorSummary == [kind |-> "error_summary"]

\* The response to what the dependency, the limiter or the route gave.
MonitoringResponse(outcome) ==
    CASE outcome.kind = "HTTPException" ->
            HttpResponse(outcome.status_code, [detail |-> outcome.detail])
      [] outcome.kind = "error_summary" -> HttpResponse(200, outcome)
      [] OTHER -> ResponseFor(outcome)

\* GET /monitoring/errors with this X-Monitoring-Key: the dependency runs
\* first; when it returns, the limiter's decorator counts the call and
\* get_monitoring_info returns the error summary.
GetMonitoringInfo(x_monitoring_key) ==
    LET access == VerifyMonitoringAccess(monitoring_api_key, x_monitoring_key)
        outcome ==
            IF access /= AccessGranted THEN access
            ELSE IF mon_hits >= MonitoringLimitPerMinute
            THEN RateLimitExceeded(<<"10 per 1 minute">>)
            ELSE ErrorSummary
    IN  /\ mon_header' = x_monitoring_key
        /\ mon_access' = access
        /\ mon_hits' = IF outcome = ErrorSummary THEN mon_hits + 1
                       ELSE mon_hits
        /\ mon_response' = MonitoringResponse(outcome)
        /\ UNCHANGED monitoring_api_key
        /\ UNCHANGED <<svcVars, verVars, webVars, getVars, fnVars, aiVars,
                       dbVars>>

\* The limiter's window of one minute ends.
MonitoringWindowEnds ==
    /\ mon_hits > 0
    /\ mon_hits' = 0
    /\ UNCHANGED <<monitoring_api_key, mon_header, mon_access, mon_response>>
    /\ UNCHANGED <<svcVars, verVars, webVars, getVars, fnVars, aiVars, dbVars>>

\* The process starts with some MONITORING_API_KEY.
MonInit ==
    /\ monitoring_api_key \in MonitoringKeys
    /\ mon_header = None
    /\ mon_access = NoResult
    /\ mon_hits = 0
    /\ mon_response = NoResponse

InitMonitoring == SvcInit /\ VerIdle /\ WebIdle /\ GetIdle /\ FnIdle
    /\ AiIdle /\ DbIdle /\ MonInit

NextMonitoring ==
    \/ \E x_monitoring_key \in MonitoringHeaders :
           GetMonitoringInfo(x_monitoring_key)
    \/ MonitoringWindowEnds

MonitoringSpec == InitMonitoring /\ [][NextMonitoring]_vars

\* --------------------------------------------- verification of one request

\* A sender signs (timestamp, body) with its secret and sends them with the
\* signature in one of the X-Signature forms.
VerInit ==
    /\ hmac_secret \in SecretConfigs
    /\ now = Now0
    /\ signed \in [key : SenderSecrets, timestamp : TimestampHeaders,
                   body : Bodies]
    /\ request \in
          { [x_signature |-> sg, x_timestamp |-> signed.timestamp,
             body |-> signed.body] :
            sg \in SignatureHeaders(
                      GenerateHmac(signed.timestamp, signed.body, signed.key)) }
    /\ verdict = NoResult
    /\ checks = <<>>
    /\ prev = NoPresentation
    /\ tampered = FALSE

Presentation == [request |-> request, now |-> now, verdict |-> verdict]

\* The dependency verify_hmac_signature runs on the presented request.
VerifyRequest ==
    /\ verdict = NoResult
    /\ verdict' = VerifyHmacSignature(hmac_secret, request.x_signature,
                                      request.x_timestamp, request.body, now)
    /\ checks' = VerifyRun(hmac_secret, request.x_signature,
                           request.x_timestamp, request.body, now).checks
    /\ UNCHANGED <<hmac_secret, now, request, signed, prev, tampered>>
    /\ UNCHANGED <<svcVars, webVars, getVars, fnVars, aiVars, dbVars, monVars>>

\* The signature and body are presented again under another X-Timestamp
\* (or without one).
ReplayWithTimestamp(t2) ==
    /\ verdict /= NoResult
    /\ ~tampered
    /\ t2 /= request.x_timestamp
    /\ prev' = Presentation
    /\ request' = [request EXCEPT !.x_timestamp = t2]
    /\ verdict' = NoResult
    /\ checks' = <<>>
    /\ tampered' = TRUE
    /\ UNCHANGED <<hmac_secret, now, signed>>
    /\ UNCHANGED <<svcVars, webVars, getVars, fnVars, aiVars, dbVars, monVars>>

\* The signature and timestamp are presented again with another body.
ReplayWithBody(b2) ==
    /\ verdict /= NoResult
    /\ ~tampered
    /\ b2 /= request.body
    /\ prev' = Presentation
    /\ request' = [request EXCEPT !.body = b2]
    /\ verdict' = NoResult
    /\ checks' = <<>>
    /\ tampered' = TRUE
    /\ UNCHANGED <<hmac_secret, now, signed>>
    /\ UNCHANGED <<svcVars, webVars, getVars, fnVars, aiVars, dbVars, monVars>>

\* A second passes and the same request is presented again.
Tick ==
    /\ verdict /= NoResult
    /\ now < Now0 + MaxTicks
    /\ now' = now + 1
    /\ prev' = Presentation
    /\ verdict' = NoResult
    /\ checks' = <<>>
    /\ UNCHANGED <<hmac_secret, request, signed, tampered>>
    /\ UNCHANGED <<svcVars, webVars, getVars, fnVars, aiVars, dbVars, monVars>>

InitVerify == SvcInit /\ VerInit /\ WebIdle /\ GetIdle /\ FnIdle
    /\ AiIdle /\ DbIdle /\ MonIdle

NextVerify ==
    \/ VerifyRequest
    \/ \E t2 \in TimestampHeaders \cup {None, <<>>} : ReplayWithTimestamp(t2)
    \/ \E b2 \in Bodies : ReplayWithBody(b2)
    \/ Tick

\* One signed request, verified, presented again changed or later.
VerifySpec == InitVerify /\ [][NextVerify]_vars

\* ------------------------------------- webhook requests through the route

\* The application starts with HMAC_SECRET unset, empty or configured.
WebInit ==
    /\ hmac_secret \in SecretConfigs
    /\ now = Now0
    /\ request = NoRequest
    /\ signed = NoRequest
    /\ verdict = NoResult
    /\ checks = <<>>
    /\ prev = NoPresentation
    /\ tampered = FALSE

\* Before anything else the client sends n requests without X-Signature
\* within the minute: the middleware counts each one and the dependency
\* refuses each one, so nothing but the default-limit count changes.
UnsignedRequests(n) ==
    /\ stage = "none"
    /\ default_hits = 0
    /\ default_hits' = n
    /\ UNCHANGED <<stage, response, route_limits, route_hits, served, last>>
    /\ UNCHANGED <<svcVars, verVars, getVars, fnVars, aiVars, dbVars, monVars>>

\* A POST /payments/webhook arrives from the client, stamped with the
\* current second; the previous request has been answered and its
\* process_webhook call, if any, is over.
Arrive(body, x_signature) ==
    /\ stage \in {"none", "responded"}
    /\ served < MaxRequests
    /\ served' = served + 1
    /\ last' = IF stage = "none" THEN NoRequest
               ELSE [request |-> request, verdict |-> verdict,
                     response |-> response]
    /\ request' = [x_signature |-> x_signature, x_timestamp |-> IntToStr(now),
                   body |-> body]
    /\ verdict' = NoResult
    /\ checks' = <<>>
    /\ response' = NoResponse
    /\ stage' = "middleware"
    /\ pc' = [pc EXCEPT ![1] = "idle"]
    /\ payload' = [payload EXCEPT ![1] = NoPayload]
    /\ result' = [result EXCEPT ![1] = NoResult]
    /\ ops' = [ops EXCEPT ![1] = <<>>]
    /\ late' = [late EXCEPT ![1] = FALSE]
    /\ fault' = [fault EXCEPT ![1] = None]
    /\ UNCHANGED <<getVars, fnVars, aiVars, dbVars, monVars>>
    /\ UNCHANGED <<store, hmac_secret, now, signed, prev, tampered>>
    /\ UNCHANGED <<default_hits, route_limits, route_hits>>

\* SlowAPIMiddleware.dispatch: process_payment carries no limit decorator,
\* so the default limit is checked (and counted) before the route runs.
SlowApiMiddleware ==
    /\ stage = "middleware"
    /\ default_hits' = default_hits + 1
    /\ IF default_hits + 1 > DefaultLimitPerMinute
       THEN /\ response' = ResponseFor(RateLimitExceeded("100 per 1 minute"))
            /\ stage' = "responded"
       ELSE /\ stage' = "body"
            /\ UNCHANGED response
    /\ UNCHANGED <<route_limits, route_hits, served, last>>
    /\ UNCHANGED <<svcVars, verVars, getVars, fnVars, aiVars, dbVars, monVars>>

\* Mutant of ReadBody: the route declares no dependency, the body is read
\* and validated next.
ReadBodyWithoutDependency ==
    /\ stage = "body"
    /\ IF request.body \in DOMAIN JsonBodies
       THEN /\ stage' = "schema"
            /\ UNCHANGED response
       ELSE /\ response' = ResponseFor(RequestValidationError({"body"}))
            /\ stage' = "responded"
    /\ UNCHANGED <<default_hits, route_limits, route_hits, served, last>>
    /\ UNCHANGED <<svcVars, verVars, getVars, fnVars, aiVars, dbVars, monVars>>

\* FastAPI reads the JSON body before it solves the dependencies; a body
\* that is not JSON is answered 422.
ReadBody ==
    /\ stage = "body"
    /\ IF request.body \in DOMAIN JsonBodies
       THEN /\ stage' = "verify"
            /\ UNCHANGED response
       ELSE /\ response' = ResponseFor(RequestValidationError({"body"}))
            /\ stage' = "responded"
    /\ UNCHANGED <<default_hits, route_limits, route_hits, served, last>>
    /\ UNCHANGED <<svcVars, verVars, getVars, fnVars, aiVars, dbVars, monVars>>

\* dependencies=[Depends(verify_hmac_signature)]: what it raises is answered
\* by the exception handlers, and the route does not run.
VerifyDependency ==
    /\ stage = "verify"
    /\ verdict' = VerifyHmacSignature(hmac_secret, request.x_signature,
                                      request.x_timestamp, request.body, now)
    /\ checks' = VerifyRun(hmac_secret, request.x_signature,
                           request.x_timestamp, request.body, now).checks
    /\ IF verdict' = Verified
       THEN /\ stage' = "schema"
            /\ UNCHANGED response
       ELSE /\ response' = ResponseFor(verdict')
            /\ stage' = "responded"
    /\ UNCHANGED <<hmac_secret, now, request, signed, prev, tampered>>
    /\ UNCHANGED <<default_hits, route_limits, route_hits, served, last>>
    /\ UNCHANGED <<svcVars, getVars, fnVars, aiVars, dbVars, monVars>>

\* payload: WebhookPayload is validated after the dependencies ran; a
\* schema error is answered 422 and process_payment does not run.
ValidateBody ==
    /\ stage = "schema"
    /\ IF SchemaErrors(JsonBodies[request.body]) = {}
       THEN /\ stage' = "route"
            /\ UNCHANGED response
       ELSE /\ response' = ResponseFor(RequestValidationError(
                              SchemaErrors(JsonBodies[request.body])))
            /\ stage' = "responded"
    /\ UNCHANGED <<default_hits, route_limits, route_hits, served, last>>
    /\ UNCHANGED <<svcVars, verVars, getVars, fnVars, aiVars, dbVars, monVars>>

\* process_payment: @limiter.limit("30/minute") decorates handle_request
\* anew, which registers one more limit for it, and the wrapper then counts
\* the request once per registered limit until one of them is exceeded.
RouteLimit ==
    /\ stage = "route"
    /\ route_limits' = route_limits + 1
    /\ IF route_hits + route_limits + 1 <= RouteLimitPerMinute
       THEN /\ route_hits' = route_hits + route_limits + 1
            /\ stage' = "service"
            /\ UNCHANGED response
       ELSE /\ route_hits' = IF route_hits >= RouteLimitPerMinute
                             THEN route_hits + 1
                             ELSE RouteLimitPerMinute + 1
            /\ response' = ResponseFor(RateLimitExceeded("30 per 1 minute"))
            /\ stage' = "responded"
    /\ UNCHANGED <<default_hits, served, last>>
    /\ UNCHANGED <<svcVars, verVars, getVars, fnVars, aiVars, dbVars, monVars>>

\* handle_request awaits PaymentService.process_webhook(payload).
ServiceCall ==
    /\ stage = "service"
    /\ Call(1, WebhookPayload(JsonBodies[request.body]))

ServiceFindOne == stage = "service" /\ FindOneReturns(1)

ServiceInsert == stage = "service" /\ InsertReturns(1)

\* What process_webhook returned or raised is sent as the response.
Respond ==
    /\ stage = "service"
    /\ pc[1] = "done"
    /\ response' = ResponseFor(result[1])
    /\ stage' = "responded"
    /\ UNCHANGED <<default_hits, route_limits, route_hits, served, last>>
    /\ UNCHANGED <<svcVars, verVars, getVars, fnVars, aiVars, dbVars, monVars>>

InitWebhook == SvcInit /\ WebInit /\ WebIdle /\ GetIdle /\ FnIdle
    /\ AiIdle /\ DbIdle /\ MonIdle

\* The X-Signature values a client sends with a body: the digest made with
\* the deployment's secret for that body or for another one, or none.
ClientSignatures(body) ==
    { GenerateHmac(IntToStr(now), b, K1) : b \in {body, <<"a">>} } \cup {None}

NextWebhook ==
    \/ \E n \in {DefaultLimitPerMinute - 1, DefaultLimitPerMinute} :
          UnsignedRequests(n)
    \/ \E body \in WebhookBodies :
          \E x_signature \in ClientSignatures(body) : Arrive(body, x_signature)
    \/ SlowApiMiddleware
    \/ ReadBody
    \/ VerifyDependency
    \/ ValidateBody
    \/ RouteLimit
    \/ ServiceCall
    \/ ServiceFindOne
    \/ ServiceInsert
    \/ Respond

\* Webhook requests of one client, one after the other, within one minute.
WebhookSpec == InitWebhook /\ [][NextWebhook]_vars

\* ------------------------------------------------------ idempotent ingestion

\* A call that has been entered with a payload that passes the business rules.
Submitted(h) == pc[h] /= "idle" /\ ValidatePaymentData(payload[h]) = NoResult

\* The submissions of tx_id.
Submissions(tx_id) == { h \in Calls : Submitted(h) /\ payload[h].tx_id = tx_id }

\* Call h awaited this store operation with this outcome.
Awaited(h, op, outcome) ==
    \E k \in DOMAIN ops[h] : ops[h][k] = StoreOp(op, outcome)

Returned(h, status) ==
    /\ pc[h] = "done"
    /\ result[h].kind = "PaymentResponse"
    /\ result[h].success
    /\ result[h].status = status
    /\ result[h].tx_id = payload[h].tx_id

\* C1: whatever the calls and their interleaving (lookup and insert failures
\* included), the collection never holds two documents with the same tx_id.
C1_AtMostOneRecordPerTxId ==
    \A i, j \in DOMAIN store : store[i].tx_id = store[j].tx_id => i = j

\* C1 witness: two calls for one tx_id both passed the lookup before either
\* inserted; one insert was applied and the other was rejected by the index.
C1_Witness ==
    \E g, h \in Calls :
        /\ g /= h
        /\ Submitted(g) /\ Submitted(h)
        /\ payload[g].tx_id = payload[h].tx_id
        /\ Awaited(g, "insert", "applied")
        /\ Awaited(h, "find_one", "absent")
        /\ Awaited(h, "insert", "DuplicateKeyError")
        /\ Cardinality(Matching(store, payload[h].tx_id)) = 1

\* C2: over a store that does not fail, at most one submission of a tx_id
\* returns 'processed'; the one that does is the call whose insert was
\* applied (the stored document is built from its payload); and once every
\* submission of the tx_id has finished, exactly one has returned 'processed'.
C2_ExactlyOneCreator ==
    \A tx \in TxIds :
        /\ Cardinality(ProcessedCalls(tx)) <= 1
        /\ \A h \in Submissions(tx) :
              h \in ProcessedCalls(tx) <=> Awaited(h, "insert", "applied")
        /\ \A h \in ProcessedCalls(tx) :
              \E i \in Matching(store, tx) :
                  /\ store[i].amount.nearest = payload[h].amount
                  /\ store[i].sender_account = payload[h].sender_account
        /\ (Submissions(tx) /= {} /\ \A h \in Submissions(tx) : pc[h] = "done")
              => Cardinality(ProcessedCalls(tx)) = 1

\* C2 witness: the same payload submitted by every call, all finished, and a
\* call that lost the insert race among them.
C2_Witness ==
    /\ \A h \in Calls : pc[h] = "done" /\ payload[h] = payload[1]
    /\ Submitted(1)
    /\ \E h \in Calls : Awaited(h, "insert", "DuplicateKeyError")
    /\ Cardinality(ProcessedCalls(payload[1].tx_id)) = 1

C6_RecordMeansOneProcessed ==
    \A tx \in TxIds :
        Matching(store, tx) /= {} => Cardinality(ProcessedCalls(tx)) = 1

\* ------------------------------------------------- signature verification

\* verify_hmac_signature has answered for the presented request.
Answered == verdict /= NoResult

Rejected == Answered /\ verdict.kind = "SecurityError"

RejectedWith(message) == Rejected /\ verdict.message = message

\* The X-Timestamp header is present and int() accepts it.
TimestampParses ==
    Truthy(request.x_timestamp) /\ ParseInt(request.x_timestamp).ok

\* request_timestamp
TimestampValue == ParseInt(request.x_timestamp).value

\* The digest, bare or with the "sha256=" prefix, in X-Signature.
Carries(digest) ==
    request.x_signature \in {digest, Sha256Prefix \o digest}

\* The request carries the signature a sender holding the configured secret
\* makes for the presented timestamp text and the presented body.
CorrectlySigned ==
    /\ Truthy(hmac_secret)
    /\ Truthy(request.x_timestamp)
    /\ Carries(GenerateHmac(request.x_timestamp, request.body, hmac_secret))

\* The request carries a signature that a sender holding the configured
\* secret made for the presented timestamp text and a body other than the
\* presented one.
SignedForOtherBody ==
    /\ Truthy(hmac_secret)
    /\ signed.key = hmac_secret
    /\ signed.timestamp = request.x_timestamp
    /\ signed.body /= request.body
    /\ Carries(GenerateHmac(signed.timestamp, signed.body, signed.key))

\* C7 as stated: a request whose signature was made (with the configured
\* secret and the presented timestamp, an integer) for another body is
\* rejected with SecurityError('Invalid signature').
C7_OtherBodyIsInvalidSignature ==
    (Answered /\ SignedForOtherBody /\ TimestampParses)
        => RejectedWith("Invalid signature")

\* C7 amended: a request whose signature was made (with the configured secret
\* and the presented timestamp) for a body B1 is rejected with SecurityError
\* whenever the presented body differs from B1; the error is 'Invalid
\* signature' when the presented timestamp is an integer within the window
\* now - MAX_WEBHOOK_AGE_SECONDS .. now + 5, and otherwise the error of the
\* timestamp check that fails first.
C7_OtherBodyRejected ==
    (Answered /\ SignedForOtherBody) =>
        /\ Rejected
        /\ (/\ TimestampParses
            /\ TimestampValue <= now + FutureSkewSeconds
            /\ now - TimestampValue <= MAX_WEBHOOK_AGE_SECONDS)
              => RejectedWith("Invalid signature")

\* C7 witness: a request that verified is presented again with another body
\* of the same length and is rejected for its signature.
C7_Witness ==
    /\ Answered /\ SignedForOtherBody
    /\ prev /= NoPresentation
    /\ prev.verdict = Verified
    /\ Len(request.body) = Len(signed.body)
    /\ RejectedWith("Invalid signature")

\* The signature and body of the presentation before, which verified, are
\* presented under another X-Timestamp text.
ReplayedUnderOtherTimestamp ==
    /\ prev /= NoPresentation
    /\ prev.verdict = Verified
    /\ request.x_signature = prev.request.x_signature
    /\ request.body = prev.request.body
    /\ request.x_timestamp /= prev.request.x_timestamp

\* C8: a (signature, body) pair that verified under X-Timestamp T1 is rejected
\* with SecurityError under every other X-Timestamp text T2.
C8_OtherTimestampRejected ==
    (Answered /\ ReplayedUnderOtherTimestamp) => Rejected

\* C8 witness: T2 is another spelling of the same second as T1 (so that the
\* freshness checks pass) and the request is rejected for its signature.
C8_Witness ==
    /\ Answered /\ ReplayedUnderOtherTimestamp
    /\ TimestampParses
    /\ TimestampValue = ParseInt(prev.request.x_timestamp).value
    /\ RejectedWith("Invalid signature")

\* C9: a correctly signed request is rejected with SecurityError when its age
\* now - timestamp exceeds MAX_WEBHOOK_AGE_SECONDS, and is accepted when its
\* age is between 0 and MAX_WEBHOOK_AGE_SECONDS inclusive.
C9_ReplayWindow ==
    (Answered /\ CorrectlySigned /\ TimestampParses) =>
        /\ now - TimestampValue > MAX_WEBHOOK_AGE_SECONDS => Rejected
        /\ (0 <= now - TimestampValue
            /\ now - TimestampValue <= MAX_WEBHOOK_AGE_SECONDS)
              => verdict = Verified

\* C9 witness: a correctly signed request was accepted at age
\* MAX_WEBHOOK_AGE_SECONDS and is rejected as expired one second later.
C9_Witness ==
    /\ Answered /\ CorrectlySigned /\ TimestampParses
    /\ prev /= NoPresentation
    /\ prev.request = request
    /\ prev.verdict = Verified
    /\ prev.now - TimestampValue = MAX_WEBHOOK_AGE_SECONDS
    /\ now - TimestampValue = MAX_WEBHOOK_AGE_SECONDS + 1
    /\ RejectedWith("Request timestamp expired")

Missing(h) == h = None \/ h = <<>>

\* A check of this name was made for the request.
Checked(name) == \E i \in DOMAIN checks : checks[i] = name

\* C11: with HMAC_SECRET unset or empty every request is rejected with
\* SecurityError, whatever its signature, timestamp and body, the correct
\* HMAC under an empty key included; nothing but the secret is looked at.
C11_FailClosedWithoutSecret ==
    (Answered /\ Missing(hmac_secret)) =>
        /\ RejectedWith("Webhook verification not configured")
        /\ checks = <<"secret">>

\* C11 witness: HMAC_SECRET is the empty string and a fresh request signed
\* with the empty key was rejected.
C11_Witness ==
    /\ Answered /\ hmac_secret = <<>>
    /\ TimestampParses /\ TimestampValue = now
    /\ Carries(GenerateHmac(request.x_timestamp, request.body, <<>>))
    /\ Rejected

TimestampNotAnInteger ==
    ~Missing(request.x_timestamp) /\ ~ParseInt(request.x_timestamp).ok

\* C13 as stated: a request whose X-Timestamp is present and not an integer
\* is rejected with 'Invalid timestamp format' whatever its signature (absent
\* or present) and body, a secret being configured.
C13_BadTimestampAnySignature ==
    (Answered /\ ~Missing(hmac_secret) /\ TimestampNotAnInteger)
        => RejectedWith("Invalid timestamp format")

\* C13 amended: with a secret configured and the X-Signature header present,
\* a request whose X-Timestamp is present and not an integer is rejected with
\* SecurityError 'Invalid timestamp format' whatever the signature value and
\* the body, and no freshness or signature check is made; without the
\* X-Signature header it is rejected for the missing signature instead.
C13_BadTimestampRejected ==
    (Answered /\ ~Missing(hmac_secret) /\ TimestampNotAnInteger) =>
        IF ~Missing(request.x_signature)
        THEN /\ RejectedWith("Invalid timestamp format")
             /\ ~Checked("future") /\ ~Checked("expired")
             /\ ~Checked("body") /\ ~Checked("hmac") /\ ~Checked("compare")
        ELSE RejectedWith("Missing signature header")

\* C13 witness: a request carrying the signature made for exactly its
\* non-integer timestamp text and its body was rejected for the format.
C13_Witness ==
    /\ Answered /\ CorrectlySigned /\ TimestampNotAnInteger
    /\ RejectedWith("Invalid timestamp format")

\* The conditions under which verification is to succeed.
ShouldVerify ==
    /\ ~Missing(hmac_secret)
    /\ ~Missing(request.x_signature) /\ ~Missing(request.x_timestamp)
    /\ ParseInt(request.x_timestamp).ok
    /\ now - MAX_WEBHOOK_AGE_SECONDS <= TimestampValue
    /\ TimestampValue <= now + 5
    /\ NormalizeSignature(request.x_signature)
          = HmacSha256Hex(hmac_secret,
                          request.x_timestamp \o <<".">> \o request.body)

\* C14, first half: verification succeeds exactly when a secret is
\* configured, both headers are present, the timestamp is an integer within
\* now - MAX_AGE .. now + 5, and the normalised signature is the HMAC of
\* timestamp header + '.' + body.
C14_VerifiedIff == Answered => (verdict = Verified <=> ShouldVerify)

\* C14 as stated: verification succeeds exactly under those conditions, and
\* in every other case it fails with SecurityError.
C14_VerifiedIffElseSecurityError ==
    Answered => /\ verdict = Verified <=> ShouldVerify
                /\ ~ShouldVerify => Rejected

\* The request's signature with the 'sha256=' prefix added if it has none,
\* removed if it has one.
OtherSignatureForm ==
    IF StartsWith(request.x_signature, Sha256Prefix)
    THEN SubSeq(request.x_signature, Len(Sha256Prefix) + 1,
                Len(request.x_signature))
    ELSE Sha256Prefix \o request.x_signature

\* The X-Signature header is a text s without prefix, or 'sha256=' followed
\* by such a text.
PlainOrPrefixedOnce ==
    /\ Truthy(request.x_signature)
    /\ Truthy(OtherSignatureForm)
    /\ ~(StartsWith(request.x_signature, Sha256Prefix)
         /\ StartsWith(OtherSignatureForm, Sha256Prefix))

\* C15: the result for a request is the same whether X-Signature carries s
\* or 'sha256=' followed by s; only one prefix is stripped, so the correct
\* digest behind two prefixes is not accepted.
C15_PrefixIsOptional ==
    Answered =>
        /\ PlainOrPrefixedOnce =>
              verdict = VerifyHmacSignature(hmac_secret, OtherSignatureForm,
                                            request.x_timestamp, request.body,
                                            now)
        /\ (/\ Truthy(hmac_secret) /\ Truthy(request.x_timestamp)
            /\ request.x_signature
                  = Sha256Prefix \o Sha256Prefix
                    \o GenerateHmac(request.x_timestamp, request.body,
                                    hmac_secret))
              => verdict /= Verified

\* C15 witness: a request whose X-Signature is 'sha256=' followed by the
\* correct digest was accepted.
C15_Witness ==
    /\ Answered /\ CorrectlySigned
    /\ StartsWith(request.x_signature, Sha256Prefix)
    /\ verdict = Verified

\* ------------------------------------------------------ business validation

\* A text field is empty: absent, "" or whitespace only.
Blank(s) == Missing(s) \/ \A i \in DOMAIN s : s[i] \in Whitespace

\* The fields of a payload that break a business rule.
OffendingFields(p) ==
    (IF Blank(p.tx_id) THEN {"tx_id"} ELSE {})
    \cup (IF p.amount <= 0 THEN {"amount"} ELSE {})
    \cup (IF Blank(p.currency) THEN {"currency"} ELSE {})
    \cup (IF Blank(p.sender_account) THEN {"sender_account"} ELSE {})
    \cup (IF Blank(p.receiver_account) THEN {"receiver_account"} ELSE {})
    \cup (IF p.sender_account = p.receiver_account THEN {"accounts"} ELSE {})

Received == stage /= "none"

\* The request in progress has been answered.
Responded == stage = "responded"

\* The body of the request is JSON that the WebhookPayload schema accepts.
ValidBody ==
    /\ request.body \in DOMAIN JsonBodies
    /\ SchemaErrors(JsonBodies[request.body]) = {}

\* The dependency did not let the request through: it raised, or the
\* request was answered before the dependency ran.
NotVerified == verdict /= Verified

\* C16: process_webhook is entered, and the store looked up or written, only
\* for a request that verify_hmac_signature has accepted, which it does only
\* for a request that is to be accepted; a request that fails verification
\* is answered without a process_webhook call and without a store operation,
\* and no step taken for it changes the store.
C16_VerificationBeforeBusinessLogic ==
    /\ [](Received =>
            /\ (pc[1] /= "idle" \/ ops[1] /= <<>>)
                  => (verdict = Verified /\ ShouldVerify)
            /\ (Answered /\ NotVerified) =>
                  /\ Responded
                  /\ response.status_code \in {401, 500}
                  /\ pc[1] = "idle" /\ ops[1] = <<>>)
    /\ [][NotVerified => store' = store]_vars

\* C16 witness: after a request was stored, a request whose signature was
\* made for another body was answered 401; the store still holds that one
\* record and process_webhook was not entered.
C16_Witness ==
    /\ Responded /\ last /= NoRequest
    /\ last.response.status_code = 200
    /\ last.response.content.status = "processed"
    /\ request.x_signature /= None /\ ~CorrectlySigned
    /\ RejectedWith("Invalid signature")
    /\ response.status_code = 401
    /\ pc[1] = "idle" /\ Len(store) = 1

\* The two latest requests are the same valid, correctly signed request and
\* neither was refused by a rate limit.
PresentedTwice ==
    /\ Responded /\ last /= NoRequest
    /\ last.request = request
    /\ ValidBody /\ CorrectlySigned
    /\ last.response.status_code /= 429
    /\ response.status_code /= 429

SignatureMismatch ==
    /\ ~Missing(hmac_secret)
    /\ request.body \in DOMAIN JsonBodies
    /\ ~Missing(request.x_signature)
    /\ ~CorrectlySigned

\* C18 as stated: a webhook request whose signature does not match its body
\* is answered 401 SecurityError however many requests the client has sent
\* before; it is never answered 429.
C18_MismatchAlways401 ==
    (Responded /\ SignatureMismatch) =>
        /\ response.status_code = 401
        /\ response.content.detail.error = "SecurityError"

\* The request is correctly signed and its JSON body has equal sender and
\* receiver accounts.
SignedWithEqualAccounts ==
    /\ request.body \in DOMAIN JsonBodies
    /\ JsonBodies[request.body].sender_account
          = JsonBodies[request.body].receiver_account
    /\ CorrectlySigned

\* C20 as stated: a correctly signed request whose sender_account equals its
\* receiver_account (and that no rate limit refuses) is answered 400 with a
\* validation error whose field is 'accounts'.
C20_EqualAccounts400 ==
    (Responded /\ SignedWithEqualAccounts /\ response.status_code /= 429) =>
        /\ response.status_code = 400
        /\ response.content.detail.field = "accounts"

\* ------------------------------------------------- wrapped store failures

\* The text t holds the text sub.
Contains(t, sub) ==
    \E i \in 1..(Len(t) - Len(sub) + 1) : SubSeq(t, i, i + Len(sub) - 1) = sub

\* A diagnostic field of the error (details, a context value, database_error)
\* holds the text.
FieldHolds(err, text) ==
    \/ Contains(err.details, text)
    \/ \E kv \in err.context : Contains(kv[2], text)
    \/ Contains(err.database_error, text)

\* A store operation of call h failed with something other than a
\* uniqueness violation.
StoreFailed(h) ==
    \/ Awaited(h, "find_one", "failed")
    \/ Awaited(h, "insert", "failed")
    \/ Awaited(h, "insert", "failed_after_write")

TaxonomyKinds ==
    {"SecurityError", "PaymentValidationError", "IdempotencyError",
     "NotFoundError", "DatabaseError"}

\* The outcome is a normal return (or there is none yet).
NormalReturn(outcome) ==
    outcome.kind \in {"none", "True", "PaymentResponse", "TransactionResponse"}

\* C22 as stated: whatever leaves verify_hmac_signature, process_webhook or
\* get_transaction_by_id as a failure is one of the taxonomy kinds, for every
\* presented signature header and every store fault.
C22_OnlyTaxonomyFailures ==
    /\ NormalReturn(verdict) \/ verdict.kind \in TaxonomyKinds
    /\ \A h \in Calls :
           NormalReturn(result[h]) \/ result[h].kind \in TaxonomyKinds
    /\ NormalReturn(get_result) \/ get_result.kind \in TaxonomyKinds


\* ------------------------------------------------------ sanitized rendering

\* C23: two SecurityErrors with the same message render identically whatever
\* their security_context; two DatabaseErrors, and two ConfigurationErrors,
\* render identically whatever their message, operation, database_error,
\* config_key or expected_value, and the message rendered is the fixed
\* generic one of the kind.
C23_RenderingHidesDiagnostics ==
    (fn = "to_safe_dict" /\ ret /= NoResult) =>
        /\ (arg[1].kind = "SecurityError" /\ arg[1].message = arg[2].message)
              => ret.first = ret.second
        /\ arg[1].kind = "DatabaseError" =>
              /\ ret.first = ret.second
              /\ ret.first.message
                    = "An internal error occurred. Please try again later."
        /\ arg[1].kind = "ConfigurationError" =>
              /\ ret.first = ret.second
              /\ ret.first.message = "A server configuration error occurred."

\* Two DatabaseErrors built with different messages, operations and driver
\* texts have been rendered.
C23_Witness ==
    /\ fn = "to_safe_dict" /\ ret /= NoResult
    /\ arg[1].kind = "DatabaseError"
    /\ arg[1].message /= arg[2].message
    /\ arg[1].operation /= arg[2].operation
    /\ arg[1].database_error /= arg[2].database_error
    /\ Truthy(arg[1].database_error)
    /\ Truthy(arg[2].operation)


\* The fields of a sanitized error body.
SanitizedFields == {"error", "message"}

\* C24 as stated: the body answered when a SecurityError or a DatabaseError
\* was raised while handling a request carries only the sanitized fields:
\* not the security context, the operation name or the details string.
C24_BodyOnlySanitized ==
    /\ (Responded /\ verdict.kind = "SecurityError") =>
           DOMAIN response.content.detail \subseteq SanitizedFields
    /\ (get_pc = "responded" /\ get_result.kind = "DatabaseError") =>
           DOMAIN get_response.content.detail \subseteq SanitizedFields


\* -------------------------------------------------------------- retrieval

\* The lookup of the retrieval in progress returned: nothing / a document.
LookupFoundNothing ==
    get_lookup.kind = "returned" /\ get_lookup.transaction = NoDocument

LookupFoundRecord ==
    get_lookup.kind = "returned" /\ get_lookup.transaction /= NoDocument

\* C25 as stated: GET /transaction/{tx_id} is answered 404 with error
\* 'NotFoundError' and a message containing 'not found' when no record has
\* the tx_id, and 200 with the transaction details when one has.
C25_GetAnswers404Or200 ==
    get_pc = "responded" =>
        /\ LookupFoundNothing =>
              /\ get_response.status_code = 404
              /\ get_response.content.error = "NotFoundError"
              /\ Contains(get_response.content.message, <<" not found">>)
        /\ LookupFoundRecord =>
              /\ get_response.status_code = 200
              /\ get_response.content.transaction
                    = TransactionDetails(get_lookup.transaction)

\* The half of C25 that holds: a stored record is answered 200 with its
\* details.
C25_FoundAnswered200 ==
    (get_pc = "responded" /\ LookupFoundRecord) =>
        /\ get_response.status_code = 200
        /\ get_response.content.status = "found"
        /\ get_response.content.transaction
              = TransactionDetails(get_lookup.transaction)


\* find_one of the retrieval in progress returns in this step, with what the
\* collection holds.
LookupReturns ==
    get_pc = "find_one" /\ get_pc' = "done" /\ get_lookup'.kind = "returned"

\* The result carries the fields of the stored document.
CarriesRecord(res, doc) ==
    /\ res.transaction.tx_id = doc.tx_id
    /\ res.transaction.amount = doc.amount.nearest
    /\ res.transaction.currency = doc.currency
    /\ res.transaction.sender_account = doc.sender_account
    /\ res.transaction.receiver_account = doc.receiver_account
    /\ res.transaction.status = doc.status
    /\ res.transaction.description = doc.description

CaughtTexts ==
    DriverErrors \cup {<<"object has no attribute">>,
                       <<"validation error for TransactionDetails">>}

\* The lookup of the retrieval raised, or returned a malformed object.
LookupFailed ==
    /\ get_pc \in {"done", "responded"}
    /\ get_lookup.kind \in {"raised", "corrupt"}

RecordOf(doc, p) ==
    /\ doc.tx_id = p.tx_id
    /\ doc.amount.nearest = p.amount
    /\ doc.currency = p.currency
    /\ doc.sender_account = p.sender_account
    /\ doc.receiver_account = p.receiver_account
    /\ doc.description = p.description

\* Every stored document stays where it is, as it is.
RecordsKept ==
    \A i \in DOMAIN store : i \in DOMAIN store' /\ store'[i] = store[i]

\* The one record of the tx_id of call h is the one call h inserted.
KeepsInsertOf(h) ==
    \E i \in DOMAIN store :
        /\ Matching(store, payload[h].tx_id) = {i}
        /\ RecordOf(store[i], payload[h])

\* C28: no step of process_webhook or get_transaction_by_id changes or
\* removes a stored record; the record of a tx_id keeps the field values of
\* the call that inserted it, also after a later submission of the same
\* tx_id with another amount or other accounts, which is answered
\* 'duplicate'.
C28_StoredNeverMutated ==
    /\ [](\A h \in Calls : Returned(h, "processed") => KeepsInsertOf(h))
    /\ [](\A h \in Calls :
             (late[h] /\ Submitted(h) /\ pc[h] = "done")
                 => Returned(h, "duplicate"))
    /\ [][RecordsKept]_vars

\* A record was inserted, a later submission of its tx_id with another amount
\* and swapped accounts was answered 'duplicate', and a retrieval then found
\* the record with the first amount.
C28_Witness ==
    \E g, h \in Calls :
        /\ Returned(g, "processed")
        /\ late[h] /\ Returned(h, "duplicate")
        /\ payload[h].tx_id = payload[g].tx_id
        /\ payload[h].amount /= payload[g].amount
        /\ payload[h].sender_account /= payload[g].sender_account
        /\ get_pc = "done"
        /\ get_result.kind = "TransactionResponse"
        /\ get_result.transaction.tx_id = payload[g].tx_id
        /\ get_result.transaction.amount = payload[g].amount


\* ------------------------------------------------------- payload validation

\* The text without the characters of the set.
RECURSIVE Without(_, _)
Without(v, chars) ==
    IF v = <<>> THEN <<>>
    ELSE IF Head(v) \in chars THEN Without(Tail(v), chars)
    ELSE <<Head(v)>> \o Without(Tail(v), chars)

MarkupChars == {"<", ">", "\"", "'", ";", "&"}

\* A payload with a description was validated and accepted.
DescriptionValidated ==
    /\ fn = "WebhookPayload"
    /\ ret.kind = "WebhookPayload"
    /\ arg.description /= None

\* C29 as stated: validation removes every < > " ' ; & from the description
\* and yields null when nothing but whitespace remains; a description without
\* those characters is kept as given.
C29_DescriptionSanitized ==
    DescriptionValidated =>
        ret.payload.description
            = IF Strip(Without(arg.description, MarkupChars)) = <<>>
              THEN None
              ELSE Without(arg.description, MarkupChars)

\* What the validator does: it removes < > " ' only.
C29_QuotesAndBracketsRemoved ==
    DescriptionValidated =>
        ret.payload.description
            = IF Strip(Without(arg.description, {"<", ">", "\"", "'"})) = <<>>
              THEN None
              ELSE Without(arg.description, {"<", ">", "\"", "'"})

\* The amount sent, in cents, is in the range 0 < amount <= 1,000,000 and has
\* at most two decimal places.
MaxAmountCents == 100000000
AmountInRange(d) ==
    d.scale <= 2 /\ d.unscaled > 0 /\ Cents(d) <= MaxAmountCents

\* C30 as stated: validation accepts an amount exactly when it is in the
\* range 0 < amount <= 1,000,000 with at most two decimal places; an amount
\* above the range is refused with an upper-bound error.
C30_AmountRange ==
    (fn = "WebhookPayload" /\ ret /= NoResult) =>
        /\ ret.kind = "WebhookPayload" <=> AmountInRange(arg.amount)
        /\ (arg.amount.scale <= 2 /\ arg.amount.unscaled > 0
              /\ ~AmountInRange(arg.amount))
             => ret.amount_errors = {"less_than_equal"}

\* The part of C30 that holds: zero, negative amounts and amounts with more
\* than two decimal places are refused, 1,000,000.00 is accepted.
C30_PositiveTwoPlaces ==
    (fn = "WebhookPayload" /\ ret /= NoResult) =>
        /\ (arg.amount.unscaled <= 0 \/ arg.amount.scale > 2)
              => (ret.kind = "ValidationError" /\ "amount" \in ret.fields)
        /\ AmountInRange(arg.amount) => ret.kind = "WebhookPayload"


\* ---------------------------------------------------------- the AI retries

FailedOutcomes == {"failed", "failed_after_write"}

\* The inserts of call h that reached the collection.
Writes(h) ==
    { k \in DOMAIN ops[h] :
        ops[h][k].op = "insert"
        /\ ops[h][k].outcome \in {"applied", "failed_after_write"} }

\* C32: a process_webhook call awaits one lookup and after it at most one
\* insert; once a store operation has failed the call is over and awaits no
\* other, so a call writes at most once.
C32_NoInternalRetry ==
    \A h \in Calls :
        /\ Len(ops[h]) <= 2
        /\ Len(ops[h]) >= 1 => ops[h][1].op = "find_one"
        /\ Len(ops[h]) = 2 =>
              /\ ops[h][1].outcome = "absent"
              /\ ops[h][2].op = "insert"
        /\ (pc[h] = "done" /\ Submitted(h)) => Len(ops[h]) >= 1
        /\ \A k \in DOMAIN ops[h] :
              ops[h][k].outcome \in FailedOutcomes =>
                  (k = Len(ops[h]) /\ pc[h] = "done")
        /\ Cardinality(Writes(h)) <= 1

\* A call whose insert failed after the write had reached the collection is
\* over with one lookup and one insert, next to a call whose lookup failed.
C32_Witness ==
    \E g, h \in Calls :
        /\ pc[g] = "done" /\ Len(ops[g]) = 1
        /\ ops[g][1] = StoreOp("find_one", "failed")
        /\ pc[h] = "done" /\ Len(ops[h]) = 2
        /\ ops[h][2] = StoreOp("insert", "failed_after_write")
        /\ result[h].kind = "DatabaseError"


\* ---------------------------------------------------------------- progress

\* The outcome is a result or an error of the taxonomy.
ResultOrTaxonomyError(outcome) ==
    outcome.kind \in {"PaymentResponse", "TransactionResponse"} \cup TaxonomyKinds

\* C33: a process_webhook call and a get_transaction_by_id call whose store
\* operations are answered (returned, failed or timed out) finish with a
\* result or a taxonomy error, a timeout giving DatabaseError, whether or not
\* the store ever answers the other calls in progress.
C33_CallsFinish ==
    /\ (pc[1] \in {"find_one", "insert"})
          ~> (pc[1] = "done" /\ ResultOrTaxonomyError(result[1]))
    /\ (get_pc = "find_one")
          ~> (get_pc = "done" /\ ResultOrTaxonomyError(get_result))
    /\ [](fault[1] = Timeout =>
              (pc[1] = "done" /\ result[1].kind = "DatabaseError"))
    /\ []((get_lookup.kind = "raised" /\ get_pc = "done") =>
              get_result.kind = "DatabaseError")

\* The first call has finished with DatabaseError after a store timeout
\* while the second call is still waiting for its insert.
C33_Witness ==
    /\ pc[1] = "done"
    /\ fault[1] = Timeout
    /\ result[1].kind = "DatabaseError"
    /\ pc[2] = "insert"
    /\ get_pc = "done"


\* ------------------------------------------------- different tx_ids

\* The stored documents of the tx_id of call h.
RecordsFor(h) == { i \in DOMAIN store : store[i].tx_id = payload[h].tx_id }

\* Call h is the only submission of its tx_id.
SoleSubmission(h) ==
    /\ Submitted(h)
    /\ \A g \in Calls \ {h} :
           Submitted(g) => payload[g].tx_id /= payload[h].tx_id

\* C34: over a store that does not fail, a call that is the only one for its
\* tx_id returns 'processed' and leaves exactly its own record, whatever
\* calls for other tx_ids run before, after or in between its lookup and its
\* insert; until its insert there is no record for its tx_id.
C34_DifferentTxIdsIndependent ==
    \A h \in Calls :
        SoleSubmission(h) =>
            /\ pc[h] = "done" =>
                  /\ Returned(h, "processed")
                  /\ \E i \in DOMAIN store :
                         /\ RecordsFor(h) = {i}
                         /\ RecordOf(store[i], payload[h])
                         /\ store[i].status = "success"
            /\ pc[h] /= "done" => RecordsFor(h) = {}

\* Two calls for different tx_ids have both returned 'processed'; the call
\* made second inserted first, and both records are stored.
C34_Witness ==
    /\ Returned(1, "processed") /\ Returned(2, "processed")
    /\ payload[1].tx_id /= payload[2].tx_id
    /\ Len(store) = 2
    /\ store[1].tx_id = payload[2].tx_id
    /\ store[2].tx_id = payload[1].tx_id


\* ------------------------------------------------ the replay window closes

\* The clock is past the end of the presented request's replay window.
PastWindow ==
    TimestampParses /\ now > TimestampValue + MAX_WEBHOOK_AGE_SECONDS

\* C35: the clock never goes back; a request whose timestamp T the clock has
\* passed by more than MAX_WEBHOOK_AGE_SECONDS stays past its window while it
\* is presented again unchanged, and every verification of it at such a time
\* raises SecurityError, whatever its signature: a request is accepted only
\* at times up to T + MAX_WEBHOOK_AGE_SECONDS.
C35_WindowClosesForGood ==
    /\ [][now' >= now]_vars
    /\ [][(PastWindow /\ request' = request) => PastWindow']_vars
    /\ []((Answered /\ PastWindow) => Rejected)
    /\ []((Answered /\ TimestampParses /\ verdict = Verified)
              => now <= TimestampValue + MAX_WEBHOOK_AGE_SECONDS)

\* A correctly signed request stamped at the edge of the window was rejected
\* as expired one second after the window closed and is rejected as expired
\* again a second later.
C35_Witness ==
    /\ Answered /\ CorrectlySigned /\ TimestampParses
    /\ prev /= NoPresentation
    /\ prev.request = request
    /\ prev.now = TimestampValue + MAX_WEBHOOK_AGE_SECONDS + 1
    /\ prev.verdict.kind = "SecurityError"
    /\ prev.verdict.message = "Request timestamp expired"
    /\ now = prev.now + 1
    /\ RejectedWith("Request timestamp expired")


\* ------------------------------------------------------ order of the checks

\* The checks of verify_hmac_signature in the order the claim gives them; the
\* signature match is reading the body, computing the HMAC and comparing.
CheckOrder ==
    <<"secret", "signature_header", "timestamp_header", "timestamp_format",
      "future", "expired", "body", "hmac", "compare">>

\* The run stopped at check number n, having made the checks before it, and
\* raised SecurityError with this message.
StoppedAt(n, message) ==
    /\ checks = SubSeq(CheckOrder, 1, n)
    /\ RejectedWith(message)

\* The presented signature is the HMAC of the presented timestamp and body
\* under the configured secret.
SignatureMatches ==
    NormalizeSignature(request.x_signature)
        = HmacSha256Hex(hmac_secret,
                        request.x_timestamp \o <<".">> \o request.body)

\* C36: verify_hmac_signature makes its checks in the order secret,
\* signature header, timestamp header, timestamp numeric, not in the future,
\* not expired, signature match, and stops at the first that fails with that
\* check's error; the body is read and the HMAC computed only when the six
\* checks before passed.  (A signature that is not ASCII fails the last check
\* with the TypeError of compare_digest.)
C36_FixedCheckOrder ==
    Answered =>
        /\ IF Missing(hmac_secret)
           THEN StoppedAt(1, "Webhook verification not configured")
           ELSE IF Missing(request.x_signature)
           THEN StoppedAt(2, "Missing signature header")
           ELSE IF Missing(request.x_timestamp)
           THEN StoppedAt(3, "Missing timestamp header")
           ELSE IF ~ParseInt(request.x_timestamp).ok
           THEN StoppedAt(4, "Invalid timestamp format")
           ELSE IF TimestampValue > now + 5
           THEN StoppedAt(5, "Request timestamp is in the future")
           ELSE IF now - TimestampValue > MAX_WEBHOOK_AGE_SECONDS
           THEN StoppedAt(6, "Request timestamp expired")
           ELSE /\ checks = CheckOrder
                /\ verdict = Verified <=> SignatureMatches
                /\ (~SignatureMatches /\ IsAscii(request.x_signature))
                      => RejectedWith("Invalid signature")
        /\ (Checked("body") \/ Checked("hmac")) =>
              /\ ~Missing(hmac_secret)
              /\ ~Missing(request.x_signature)
              /\ ~Missing(request.x_timestamp)
              /\ ParseInt(request.x_timestamp).ok
              /\ TimestampValue <= now + 5
              /\ now - TimestampValue <= MAX_WEBHOOK_AGE_SECONDS

\* A request with an expired timestamp and a signature made with another
\* secret was rejected as expired, before its body was read.
C36_Witness ==
    /\ Answered /\ TimestampParses
    /\ ~Missing(hmac_secret) /\ ~Missing(request.x_signature)
    /\ ~SignatureMatches
    /\ now - TimestampValue > MAX_WEBHOOK_AGE_SECONDS
    /\ RejectedWith("Request timestamp expired")
    /\ ~Checked("body") /\ ~Checked("hmac") /\ ~Checked("compare")


\* ------------------------------------------------- what the store may hold

DbEnded == db_pc \in {"returned", "raised", "closed"}

\* The attempts before the last one all raised.
EarlierAttemptsRaised ==
    \A k \in 1..(Len(db_attempts) - 1) : db_attempts[k].raised /= NoResult

\* C38: init_db makes at most 3 attempts and ends; it stops at the first
\* attempt that succeeds and assigns the global client only then; when it
\* raises, all 3 attempts failed, what it raises is the last attempt's
\* failure, a DatabaseError or a ConfigurationError, and the global client is
\* unset (get_database_client raises DatabaseError); with MONGO_URL missing
\* or malformed it raises ConfigurationError and no connection is ever made.
C38_InitDbBoundedAttempts ==
    /\ [](/\ Len(db_attempts) <= 3
          /\ EarlierAttemptsRaised
          /\ db_pc \in {"idle", "attempt"} =>
                (db_client = NoClient /\ db_result = NoResult)
          /\ db_pc = "returned" =>
                /\ db_attempts[Len(db_attempts)].raised = NoResult
                /\ db_client = db_result /\ db_client /= NoClient
          /\ db_pc = "raised" =>
                /\ Len(db_attempts) = 3
                /\ db_result = db_attempts[3].raised
                /\ db_result.kind \in {"DatabaseError", "ConfigurationError"}
                /\ db_client = NoClient
          /\ (db_client = NoClient /\ db_got /= NoResult
                 /\ db_pc /= "closed") =>
                db_got.kind = "DatabaseError"
          /\ (~Truthy(mongo_url)
                 \/ ~\E scheme \in MongoSchemes : StartsWith(mongo_url, scheme))
                => /\ db_connects = 0
                   /\ db_pc /= "returned"
                   /\ db_pc = "raised" => db_result.kind = "ConfigurationError")
    /\ (db_pc = "attempt") ~> DbEnded

\* With a valid MONGO_URL two attempts timed out at the ping and the third
\* succeeded: three connections were made and the global client is the
\* third's.
C38_Witness ==
    /\ db_pc = "returned"
    /\ Len(db_attempts) = 3
    /\ db_attempts[1].raised = ConnectFailure("ping_timeout")
    /\ db_attempts[2].raised = ConnectFailure("ping_timeout")
    /\ db_client = Client(3)
    /\ db_got = Client(3)


\* ------------------------------------------------------ /monitoring/errors

\* C39: with MONITORING_API_KEY unset or empty every request to
\* /monitoring/errors is answered 403; with a key configured the check lets a
\* request through only when its X-Monitoring-Key is present and equal to the
\* key; the error summary is in a response only when the check let the
\* request through, every other response is an error response.
C39_MonitoringFailsClosed ==
    mon_response /= NoResponse =>
        /\ ~Truthy(monitoring_api_key) =>
              /\ mon_response.status_code = 403
              /\ mon_access /= AccessGranted
        /\ mon_access = AccessGranted =>
              /\ Truthy(monitoring_api_key)
              /\ Truthy(mon_header)
              /\ mon_header = monitoring_api_key
        /\ mon_response.status_code = 200 <=>
              (mon_access = AccessGranted
               /\ mon_response.content = ErrorSummary)
        /\ mon_response.status_code \in {200, 403, 429, 500}
        /\ mon_hits > 0 => Truthy(monitoring_api_key)

\* Without a configured key a request that presents a key is answered 403
\* "Monitoring access not configured".
C39_Witness ==
    /\ mon_response /= NoResponse
    /\ ~Truthy(monitoring_api_key)
    /\ mon_header = K1
    /\ mon_response
         = HttpResponse(403, [detail |-> "Monitoring access not configured"])
    /\ mon_hits = 0

=============================================================================
